---- MODULE Spec2Model ----
\* The loomnodes document store (graph.svelte.ts) with its durable storage,
\* its debounce timer and its microtask-coalesced structural version.
\*
\* Values.  Ids and texts are strings.  A node is the record
\*   [id, position, data |-> [id, text, parentId, childIds, isRoot,
\*                            isGenerating, generatedTextStart, error]]
\* (type, width and height are constants of the presentation layer and are
\* left out).  JavaScript's null is Null; a key that is missing from an object
\* is Absent; a key that is present with the value undefined is Undefined; a
\* text that is not of type string is NotAString.
EXTENDS Integers, Sequences, FiniteSets, TLC

\* ---------------------------------------------------------------- bounds
MaxMinorCalls == 1    \* calls in one run that leave the structure alone: minorCalls, refused calls
MaxVersion == 1       \* structural version a session reaches before the model stops mutating
MaxReloads == 1       \* page reloads in one run
TraversalFuel == 12   \* iterations of deleteNode's while loop before it counts as hung

\* ---------------------------------------------------------------- values
Null == "#null"
Absent == "#absent"
Undefined == "#undefined"
NotAString == "#number"

\* the ids createId() hands out, in order; a run ends its supply
IdPool == <<"n1", "n2", "n3", "n4">>
\* (text, generatedTextStart) arguments of addChild / addChildStreaming
ChildArgs == {<<"ab", 1>>}
\* text arguments of updateText / updateTextSilent
Texts == {"cd"}
ErrorArgs == {Undefined, "boom"}
Origin == [x |-> 0, y |-> 0]
Moved == [x |-> 1, y |-> 1]

VARIABLES
    nodes,              \* graph.svelte.ts: let nodes
    edges,              \* let edges
    nodeDataMap,        \* let nodeDataMap: id -> data
    nodeIndexMap,       \* let nodeIndexMap: id -> position in nodes (1-based here)
    structureVersion,   \* let structureVersion
    structureScheduled, \* let structureScheduled: a microtask is queued
    persistTimer,       \* let persistTimer: TRUE when it holds a handle, FALSE when null
    timeouts,           \* the timeouts of persist() pending in the runtime: ticks left, oldest first
    storage,            \* localStorage['loomnodes:graph']: <<>> or <<json>>
    nextId,             \* number of ids createId() has handed out, plus one
    exported,           \* the last string exportGraph() returned: <<>> or <<json>>
    exportedFrom,       \* history: the {nodes, edges} that string was made from
    initialized,        \* history: init() has run in this session
    hung,               \* the session is stuck in a loop that never ends
    minorCalls,         \* history: calls so far that left the structure alone
    reloads,            \* history: reloads made so far
    turnMutations,      \* history: structural mutations since the microtask queue last drained
    lastOp,             \* history: the last public operation, its argument and result
    gen,                \* generation.svelte.ts: activeRequests and the running batches
    server,             \* api/completions/batch/+server.ts: the POST handler's task loop
    transport,          \* completion.ts: the read loop of fetchCompletionStreamBatch
    quotaExceeded       \* localStorage is full or unavailable: setItem throws

vars == <<nodes, edges, nodeDataMap, nodeIndexMap, structureVersion, structureScheduled,
          persistTimer, timeouts, storage, nextId, exported, exportedFrom, initialized,
          hung, minorCalls, reloads, turnMutations, lastOp, gen, server, transport, quotaExceeded>>

\* ---------------------------------------------------------------- helpers
SeqRange(s) == {s[i] : i \in 1..Len(s)}

RECURSIVE SeqFilterIdx(_, _, _)
SeqFilterIdx(s, keep, i) ==
    IF i > Len(s) THEN <<>>
    ELSE (IF s[i] \in keep THEN <<s[i]>> ELSE <<>>) \o SeqFilterIdx(s, keep, i + 1)

\* Array.prototype.filter with a membership test
FilterIn(s, keep) == SeqFilterIdx(s, keep, 1)

SetMax(S) == CHOOSE m \in S : \A k \in S : k <= m
SetMin(S) == CHOOSE m \in S : \A k \in S : m <= k

NodeIds(ns) == {ns[i].id : i \in 1..Len(ns)}

\* mutant: a missing id finds the first node
FindIndexOrFirst(ns, id) ==
    LET hits == {i \in 1..Len(ns) : ns[i].id = id}
    IN IF hits # {} THEN SetMin(hits) ELSE IF ns = <<>> THEN 0 ELSE 1

\* nodes.find((n) => n.id === id): position of the first match, 0 when none
FindIndex(ns, id) ==
    LET hits == {i \in 1..Len(ns) : ns[i].id = id}
    IN IF hits = {} THEN 0 ELSE SetMin(hits)

\* the position Map.set leaves for an id: the last node carrying it
LastIndex(ns, id) == SetMax({i \in 1..Len(ns) : ns[i].id = id})

\* rebuildIndex(): the two maps derived from nodes
RebuildDataMap(ns) == [id \in NodeIds(ns) |-> ns[LastIndex(ns, id)].data]
RebuildIndexMap(ns) == [id \in NodeIds(ns) |-> LastIndex(ns, id)]

\* ---------------------------------------------------------------- JSON
\* JSON.stringify drops a key whose value is undefined; every other value of
\* the model survives, and JSON.parse yields what was written.
StringifyData(d) == [d EXCEPT !.error = IF d.error = Undefined THEN Absent ELSE d.error]
StringifyNode(n) == [n EXCEPT !.data = StringifyData(n.data)]
Stringify(ns, es) ==
    [kind |-> "object", hasNodes |-> TRUE, hasEdges |-> TRUE,
     nodes |-> [i \in 1..Len(ns) |-> StringifyNode(ns[i])], edges |-> es]

\* what localStorage holds under the key of the graph once setItem has stored
\* the document, and what loadGraph() then reads
Stored(ns, es) == <<Stringify(ns, es)>>

\* ---------------------------------------------------------------- nodes
CreateId == IdPool[nextId]

NewData(id, text, parentId, isRoot, isGenerating, start) ==
    [id |-> id, text |-> text, parentId |-> parentId, childIds |-> <<>>,
     isRoot |-> isRoot, isGenerating |-> isGenerating,
     generatedTextStart |-> start, error |-> Absent]

NewNode(id, text, parentId, isRoot, isGenerating, start) ==
    [id |-> id, position |-> Origin,
     data |-> NewData(id, text, parentId, isRoot, isGenerating, start)]

\* mutant: the root starts out generating
CreateRootNodeGenerating(id) == NewNode(id, "", Null, TRUE, TRUE, 0)

CreateRootNode(id) == NewNode(id, "", Null, TRUE, FALSE, 0)

NewEdge(parentId, childId) ==
    [id |-> "e-" \o parentId \o "-" \o childId, source |-> parentId, target |-> childId]

\* what lastOp records: the operation, its id argument, what it returned or
\* threw, and how many nodes it took out of the document (for importGraph and
\* clearAll: the size of the document they replaced)
OpRemoving(name, arg, ret, removed) == [op |-> name, arg |-> arg, ret |-> ret, removed |-> removed]
Op(name, arg, ret) == OpRemoving(name, arg, ret, 0)

\* an id that names no node
MissingId == "zz"
TargetIds == NodeIds(nodes) \cup {MissingId}

\* ---------------------------------------------------------------- persistence
PersistDelay == 2   \* ticks of the model's clock in the 500 ms of persist()

\* clearTimeout(persistTimer): the handle names the timeout set last
ClearTimeout(ts) == IF persistTimer /\ ts # <<>> THEN SubSeq(ts, 1, Len(ts) - 1) ELSE ts

\* the timeouts after persist(), had it not cleared the one pending
SetTimeoutOnly(ts) == Append(ts, PersistDelay)

\* the timeouts after persist(): the pending one cleared, a new one set for the full delay
SetTimeout(ts) == Append(ClearTimeout(ts), PersistDelay)

\* saveGraph({nodes, edges}): setItem stores the document, or throws, which
\* saveGraph swallows, leaving what was stored
SaveGraph(ns, es) == IF quotaExceeded THEN storage ELSE Stored(ns, es)

\* localStorage fills up, or room is made in it
QuotaChanges ==
    /\ quotaExceeded' = ~quotaExceeded
    /\ UNCHANGED <<nodes, edges, nodeDataMap, nodeIndexMap, structureVersion, structureScheduled,
                   persistTimer, timeouts, storage, nextId, exported, exportedFrom, initialized,
                   hung, minorCalls, reloads, turnMutations, lastOp, gen, server, transport>>

\* persist(): (re)start the 500 ms timer; nothing is written now
persist_ ==
    /\ persistTimer' = TRUE
    /\ timeouts' = SetTimeout(timeouts)
    /\ UNCHANGED storage

\* persistImmediate(): cancel the timer and write the document as it is after
\* the caller's assignments
persistImmediate ==
    /\ persistTimer' = FALSE
    /\ timeouts' = ClearTimeout(timeouts)
    /\ storage' = SaveGraph(nodes', edges')

\* the callback of the i-th pending timeout
TimeoutCallback(i) ==
    /\ ~hung
    /\ gen.resuming = <<>>
    /\ persistTimer' = FALSE
    /\ timeouts' = SubSeq(timeouts, 1, i - 1) \o SubSeq(timeouts, i + 1, Len(timeouts))
    /\ storage' = SaveGraph(nodes, edges)
    /\ UNCHANGED <<nodes, edges, nodeDataMap, nodeIndexMap, structureVersion,
                   structureScheduled, nextId, exported, exportedFrom, initialized,
                   hung, minorCalls, reloads, gen, server, transport, quotaExceeded, turnMutations, lastOp>>

\* a pending timeout fires, after a delay of any length
PersistTimerFires == \E i \in 1..Len(timeouts) : TimeoutCallback(i)

\* a pending timeout fires when its delay has run out on the model's clock
PersistTimerDue == \E i \in 1..Len(timeouts) : timeouts[i] = 0 /\ TimeoutCallback(i)

\* the model's clock advances by one tick; a timeout that is due fires first
Tick ==
    /\ ~hung
    /\ timeouts # <<>>
    /\ \A i \in 1..Len(timeouts) : timeouts[i] > 0
    /\ timeouts' = [i \in 1..Len(timeouts) |-> timeouts[i] - 1]
    /\ UNCHANGED <<nodes, edges, nodeDataMap, nodeIndexMap, structureVersion,
                   structureScheduled, persistTimer, storage, nextId, exported,
                   exportedFrom, initialized, hung, minorCalls, reloads, turnMutations,
                   lastOp, gen, server, transport, quotaExceeded>>

\* ---------------------------------------------------------------- structural version
MaxTurnCount == 2   \* turnMutations saturates here: "two or more"

\* incrementStructure(): queue one microtask unless one is queued already
incrementStructure ==
    /\ structureScheduled' = TRUE
    /\ turnMutations' = IF turnMutations < MaxTurnCount THEN turnMutations + 1 ELSE turnMutations
    /\ UNCHANGED structureVersion

\* mutant: one increment for every mutation of the turn
StructureMicrotaskPerMutation ==
    /\ ~hung
    /\ structureScheduled
    /\ structureScheduled' = FALSE
    /\ structureVersion' = structureVersion + turnMutations
    /\ turnMutations' = 0
    /\ UNCHANGED <<nodes, edges, nodeDataMap, nodeIndexMap, persistTimer, timeouts, storage, nextId,
                   exported, exportedFrom, initialized, hung, minorCalls, reloads, gen, server, transport, quotaExceeded, lastOp>>

\* the queued microtask: control is back with the scheduler
StructureMicrotask ==
    /\ ~hung
    /\ structureScheduled
    /\ structureScheduled' = FALSE
    /\ structureVersion' = structureVersion + 1
    /\ turnMutations' = 0
    /\ UNCHANGED <<nodes, edges, nodeDataMap, nodeIndexMap, persistTimer, timeouts, storage, nextId,
                   exported, exportedFrom, initialized, hung, minorCalls, reloads, gen, server, transport, quotaExceeded, lastOp>>

\* a structural operation may start: the session runs, and the version is below its bound
CanMutate == ~hung /\ structureVersion < MaxVersion

\* a public operation other than init() may be called: the page calls init()
\* when it mounts, before anything else; a call comes from a task, which starts
\* when no caller of runBatchGeneration is left to resume
Running == initialized /\ ~hung /\ gen.resuming = <<>>

\* a call that returns early, or throws, before it changes anything
Refuse ==
    /\ minorCalls < MaxMinorCalls
    /\ minorCalls' = minorCalls + 1

rebuildIndex ==
    /\ nodeDataMap' = RebuildDataMap(nodes')
    /\ nodeIndexMap' = RebuildIndexMap(nodes')

\* ---------------------------------------------------------------- init
\* mutant: the nodes are taken as they were saved
InitNodesAsSaved(saved) == saved.nodes

\* init(), loaded branch: every node with isGenerating forced to false
InitNodes(saved) ==
    [i \in 1..Len(saved.nodes) |-> [saved.nodes[i] EXCEPT !.data.isGenerating = FALSE]]

InitLoads == storage # <<>> /\ Len(storage[1].nodes) > 0

init ==
    /\ CanMutate
    /\ IF InitLoads
       THEN /\ nodes' = InitNodes(storage[1])
            /\ edges' = storage[1].edges
            /\ UNCHANGED nextId
       ELSE /\ nextId <= Len(IdPool)
            /\ nodes' = <<CreateRootNode(CreateId)>>
            /\ edges' = <<>>
            /\ nextId' = nextId + 1
    /\ rebuildIndex
    /\ incrementStructure
    /\ initialized' = TRUE
    /\ lastOp' = Op("init", IF InitLoads THEN "loaded" ELSE "fresh", "")
    /\ UNCHANGED <<persistTimer, timeouts, storage, exported, exportedFrom, hung, minorCalls, reloads, gen, server, transport, quotaExceeded>>

\* ---------------------------------------------------------------- addChild
\* mutant: the new child comes first in the parent's childIds
PrependChildId(ns, parentId, childId) ==
    [i \in 1..Len(ns) |->
        IF ns[i].id = parentId
        THEN [ns[i] EXCEPT !.data.childIds = <<childId>> \o @]
        ELSE ns[i]]

\* nodes.map(...) of addChild: every node carrying parentId gets childId appended
AppendChildId(ns, parentId, childId) ==
    [i \in 1..Len(ns) |->
        IF ns[i].id = parentId
        THEN [ns[i] EXCEPT !.data.childIds = Append(@, childId)]
        ELSE ns[i]]

AddChildNodes(ns, parentId, child) == Append(AppendChildId(ns, parentId, child.id), child)

AddChildEdges(es, parentId, childId) == Append(es, NewEdge(parentId, childId))

\* the parts addChild and addChildStreaming share; they differ in the child's
\* isGenerating and in how they persist
AddChildCommon(name, parentId, text, start, generating) ==
    IF FindIndex(nodes, parentId) = 0
    THEN /\ Refuse
         /\ lastOp' = Op(name, parentId, "")
         /\ UNCHANGED <<nodes, edges, nodeDataMap, nodeIndexMap, structureVersion,
                        structureScheduled, persistTimer, timeouts, storage, nextId, turnMutations>>
    ELSE /\ CanMutate
         /\ nextId <= Len(IdPool)
         /\ nodes' = AddChildNodes(nodes, parentId,
                                   NewNode(CreateId, text, parentId, FALSE, generating, start))
         /\ edges' = AddChildEdges(edges, parentId, CreateId)
         /\ nextId' = nextId + 1
         /\ rebuildIndex
         /\ IF generating THEN persist_ ELSE persistImmediate
         /\ incrementStructure
         /\ lastOp' = Op(name, parentId, CreateId)
         /\ UNCHANGED minorCalls

addChild(parentId, text, start) ==
    /\ Running
    /\ AddChildCommon("addChild", parentId, text, start, FALSE)
    /\ UNCHANGED <<exported, exportedFrom, initialized, hung, reloads, gen, server, transport, quotaExceeded>>

addChildStreaming(parentId, initialText, start) ==
    /\ Running
    /\ AddChildCommon("addChildStreaming", parentId, initialText, start, TRUE)
    /\ UNCHANGED <<exported, exportedFrom, initialized, hung, reloads, gen, server, transport, quotaExceeded>>

\* ---------------------------------------------------------------- deleteNode
\* the while loop of deleteNode: pop the last entry of the queue, add it to
\* toDelete, push its childIds.  fuel counts the iterations still allowed;
\* done is FALSE when they ran out with the queue not empty.
RECURSIVE Traverse(_, _, _, _)
Traverse(ns, queue, toDelete, fuel) ==
    IF queue = <<>> THEN [done |-> TRUE, set |-> toDelete]
    ELSE IF fuel = 0 THEN [done |-> FALSE, set |-> toDelete]
    ELSE LET current == queue[Len(queue)]
             rest == SubSeq(queue, 1, Len(queue) - 1)
             idx == FindIndex(ns, current)
             pushed == IF idx # 0 THEN rest \o ns[idx].data.childIds ELSE rest
         IN Traverse(ns, pushed, toDelete \cup {current}, fuel - 1)

ToDelete(ns, nodeId) == Traverse(ns, <<nodeId>>, {}, TraversalFuel)

RECURSIVE KeepNodes(_, _, _)
KeepNodes(ns, toDelete, i) ==
    IF i > Len(ns) THEN <<>>
    ELSE (IF ns[i].id \in toDelete THEN <<>> ELSE <<ns[i]>>) \o KeepNodes(ns, toDelete, i + 1)

RECURSIVE Without(_, _)
Without(s, x) ==
    IF s = <<>> THEN <<>>
    ELSE (IF Head(s) = x THEN <<>> ELSE <<Head(s)>>) \o Without(Tail(s), x)

\* mutant: the parent keeps the deleted id in its childIds
DeleteNodesParentUntouched(ns, toDelete, parentId, nodeId) == KeepNodes(ns, toDelete, 1)

\* nodes.filter(not in toDelete).map(parent loses nodeId from childIds)
DeleteNodes(ns, toDelete, parentId, nodeId) ==
    LET kept == KeepNodes(ns, toDelete, 1)
    IN [i \in 1..Len(kept) |->
           IF kept[i].id = parentId
           THEN [kept[i] EXCEPT !.data.childIds = Without(@, nodeId)]
           ELSE kept[i]]

RECURSIVE KeepEdges(_, _, _)
KeepEdges(es, toDelete, i) ==
    IF i > Len(es) THEN <<>>
    ELSE (IF es[i].source \in toDelete \/ es[i].target \in toDelete THEN <<>> ELSE <<es[i]>>)
         \o KeepEdges(es, toDelete, i + 1)

\* mutant: only the edges leaving a deleted node go
DeleteEdgesBySource(es, toDelete) ==
    FilterIn(es, {e \in SeqRange(es) : e.source \notin toDelete})

\* edges.filter(neither end in toDelete)
DeleteEdges(es, toDelete) == KeepEdges(es, toDelete, 1)

\* mutant: the root is not protected
DeleteRefusedMissingOnly(ns, nodeId) == FindIndex(ns, nodeId) = 0

\* deleteNode's early return: the node is missing or is the root
DeleteRefused(ns, nodeId) ==
    FindIndex(ns, nodeId) = 0 \/ ns[FindIndex(ns, nodeId)].data.isRoot

deleteNode(nodeId) ==
    /\ Running
    /\ IF DeleteRefused(nodes, nodeId)
       THEN /\ Refuse
            /\ lastOp' = Op("deleteNode", nodeId, "")
            /\ UNCHANGED <<nodes, edges, nodeDataMap, nodeIndexMap, structureVersion,
                           structureScheduled, persistTimer, timeouts, storage, turnMutations, hung>>
       ELSE LET t == ToDelete(nodes, nodeId)
                parentId == nodes[FindIndex(nodes, nodeId)].data.parentId
            IN IF ~t.done
               THEN /\ hung' = TRUE
                    /\ UNCHANGED minorCalls
                    /\ lastOp' = Op("deleteNode", nodeId, "hung")
                    /\ UNCHANGED <<nodes, edges, nodeDataMap, nodeIndexMap, structureVersion,
                                   structureScheduled, persistTimer, timeouts, storage, turnMutations>>
               ELSE /\ CanMutate
                    /\ nodes' = DeleteNodes(nodes, t.set, parentId, nodeId)
                    /\ edges' = DeleteEdges(edges, t.set)
                    /\ rebuildIndex
                    /\ persistImmediate
                    /\ incrementStructure
                    /\ lastOp' = OpRemoving("deleteNode", nodeId, "deleted",
                                             Len(nodes) - Len(nodes'))
                    /\ UNCHANGED <<hung, minorCalls>>
    /\ UNCHANGED <<nextId, exported, exportedFrom, initialized, reloads, gen, server, transport, quotaExceeded>>

\* ---------------------------------------------------------------- patches
\* mutant: a patch of an id that is not in the document makes a node for it
PatchNodesUpsert(ns, idxMap, field, nodeId, value) ==
    IF nodeId \notin DOMAIN idxMap
    THEN Append(ns, NewNode(nodeId, "", Null, FALSE, FALSE, 0))
    ELSE LET idx == idxMap[nodeId]
         IN CASE field = "text" -> [ns EXCEPT ![idx].data.text = value]
              [] field = "isGenerating" -> [ns EXCEPT ![idx].data.isGenerating = value]
              [] field = "error" -> [ns EXCEPT ![idx].data.error = value]

\* patchNode(nodeId, patch) for a patch of one data field: the node at
\* nodeIndexMap[nodeId] gets the field, and nodeDataMap gets that node's data
PatchNodes(ns, idxMap, field, nodeId, value) ==
    IF nodeId \notin DOMAIN idxMap THEN ns
    ELSE LET idx == idxMap[nodeId]
         IN CASE field = "text" -> [ns EXCEPT ![idx].data.text = value]
              [] field = "isGenerating" -> [ns EXCEPT ![idx].data.isGenerating = value]
              [] field = "error" -> [ns EXCEPT ![idx].data.error = value]

\* newMap.set(nodeId, updatedNode.data), patched being the nodes after the patch
PatchDataMap(dataMap, patched, idxMap, nodeId) ==
    IF nodeId \notin DOMAIN idxMap THEN dataMap
    ELSE [id \in DOMAIN dataMap \cup {nodeId} |->
             IF id = nodeId THEN patched[idxMap[nodeId]].data ELSE dataMap[id]]

PatchedNodes(field, nodeId, value) == PatchNodes(nodes, nodeIndexMap, field, nodeId, value)

patchNode(field, nodeId, value) ==
    /\ nodes' = PatchedNodes(field, nodeId, value)
    /\ nodeDataMap' = PatchDataMap(nodeDataMap, nodes', nodeIndexMap, nodeId)
    /\ UNCHANGED <<edges, nodeIndexMap>>

CanPatch == Running /\ minorCalls < MaxMinorCalls

PatchFrame ==
    /\ minorCalls' = minorCalls + 1
    /\ UNCHANGED <<structureVersion, structureScheduled, nextId, exported, exportedFrom,
                   initialized, hung, reloads, gen, server, transport, quotaExceeded, turnMutations>>

updateTextSilent(nodeId, text) ==
    /\ CanPatch
    /\ patchNode("text", nodeId, text)
    /\ lastOp' = Op("updateTextSilent", nodeId, "")
    /\ PatchFrame
    /\ UNCHANGED <<persistTimer, timeouts, storage>>

updateText(nodeId, text) ==
    /\ CanPatch
    /\ patchNode("text", nodeId, text)
    /\ persist_
    /\ lastOp' = Op("updateText", nodeId, "")
    /\ PatchFrame

setGenerating(nodeId, isGenerating) ==
    /\ CanPatch
    /\ patchNode("isGenerating", nodeId, isGenerating)
    /\ lastOp' = Op("setGenerating", nodeId, "")
    /\ PatchFrame
    /\ UNCHANGED <<persistTimer, timeouts, storage>>

setError(nodeId, error) ==
    /\ CanPatch
    /\ patchNode("error", nodeId, error)
    /\ lastOp' = Op("setError", nodeId, "")
    /\ PatchFrame
    /\ UNCHANGED <<persistTimer, timeouts, storage>>

\* mutant: every node takes the position
MovedNodesAll(ns, moved) == [i \in 1..Len(ns) |-> [ns[i] EXCEPT !.position = Moved]]

\* updatePositionsSilent(positions): positions maps the ids of moved to Moved
MovedNodes(ns, moved) ==
    [i \in 1..Len(ns) |-> IF ns[i].id \in moved THEN [ns[i] EXCEPT !.position = Moved] ELSE ns[i]]

updatePositionsSilent(moved) ==
    /\ CanPatch
    /\ nodes' = MovedNodes(nodes, moved)
    /\ lastOp' = Op("updatePositionsSilent", "", "")
    /\ PatchFrame
    /\ UNCHANGED <<edges, nodeDataMap, nodeIndexMap, persistTimer, timeouts, storage>>

\* arrays a caller assigns to graphStore.nodes: none, a copy of the nodes, the
\* nodes but the last
NodeArrays == {<<>>, nodes, SubSeq(nodes, 1, Len(nodes) - 1)}

\* arrays a caller assigns to graphStore.edges: none, a copy of the edges
EdgeArrays == {<<>>, edges}

\* graphStore.nodes = v: the array is taken as it is and the maps are rebuilt;
\* nothing is persisted and no increment is scheduled
setNodes(v) ==
    /\ CanPatch
    /\ nodes' = v
    /\ rebuildIndex
    /\ lastOp' = Op("setNodes", "", "")
    /\ PatchFrame
    /\ UNCHANGED <<edges, persistTimer, timeouts, storage>>

\* graphStore.edges = v: the array is taken as it is
setEdges(v) ==
    /\ CanPatch
    /\ edges' = v
    /\ lastOp' = Op("setEdges", "", "")
    /\ PatchFrame
    /\ UNCHANGED <<nodes, nodeDataMap, nodeIndexMap, persistTimer, timeouts, storage>>

\* graphStore.persist(), as the orchestrator calls it
persist ==
    /\ CanPatch
    /\ persist_
    /\ lastOp' = Op("persist", "", "")
    /\ PatchFrame
    /\ UNCHANGED <<nodes, edges, nodeDataMap, nodeIndexMap>>

\* ---------------------------------------------------------------- export / import
\* exportGraph(): the string is kept by the caller (one export per run)
exportGraph ==
    /\ Running
    /\ exported = <<>>
    /\ exported' = <<Stringify(nodes, edges)>>
    /\ exportedFrom' = <<[nodes |-> nodes, edges |-> edges]>>
    /\ lastOp' = Op("exportGraph", "", "")
    /\ UNCHANGED <<nodes, edges, nodeDataMap, nodeIndexMap, structureVersion,
                   structureScheduled, persistTimer, timeouts, storage, nextId, initialized, hung,
                   minorCalls, reloads, gen, server, transport, quotaExceeded, turnMutations>>

\* data of a node that has no data key
NoData ==
    [id |-> Absent, text |-> Absent, parentId |-> Absent, childIds |-> <<>>,
     isRoot |-> FALSE, isGenerating |-> FALSE, generatedTextStart |-> 0, error |-> Absent]

\* n.data?.isRoot for some n
HasRoot(jnodes) == \E i \in 1..Len(jnodes) : jnodes[i].data.isRoot

\* !n.id || !n.data || typeof n.data.text !== 'string'
Malformed(n) ==
    \/ n.id \in {Absent, ""}
    \/ n.data = NoData
    \/ n.data.text \in {Absent, NotAString}

\* mutant: the per-node check is skipped
ImportErrorNoNodeCheck(json) ==
    IF json.kind = "garbage" THEN "SyntaxError"
    ELSE IF json.kind = "null" \/ ~json.hasNodes \/ ~json.hasEdges
         THEN "Invalid graph format: missing nodes or edges arrays"
    ELSE IF Len(json.nodes) = 0 THEN "Invalid graph: no nodes"
    ELSE IF ~HasRoot(json.nodes) THEN "Invalid graph: no root node"
    ELSE ""

\* the checks of importGraph in their order: the message thrown, "" when none
ImportError(json) ==
    IF json.kind = "garbage" THEN "SyntaxError"
    ELSE IF json.kind = "null" \/ ~json.hasNodes \/ ~json.hasEdges
         THEN "Invalid graph format: missing nodes or edges arrays"
    ELSE IF Len(json.nodes) = 0 THEN "Invalid graph: no nodes"
    ELSE IF ~HasRoot(json.nodes) THEN "Invalid graph: no root node"
    ELSE IF \E i \in 1..Len(json.nodes) : Malformed(json.nodes[i])
         THEN "Invalid graph: malformed node data"
    ELSE ""

\* mutant: the nodes are taken as they come
ImportNodesAsGiven(json) == json.nodes

\* importGraph's commit: every node with isGenerating forced to false
ImportNodes(json) ==
    [i \in 1..Len(json.nodes) |-> [json.nodes[i] EXCEPT !.data.isGenerating = FALSE]]

importGraph(from, json) ==
    /\ Running
    /\ IF ImportError(json) # ""
       THEN /\ Refuse
            /\ lastOp' = Op("importGraph", from, ImportError(json))
            /\ UNCHANGED <<nodes, edges, nodeDataMap, nodeIndexMap, structureVersion,
                           structureScheduled, persistTimer, timeouts, storage, turnMutations>>
       ELSE /\ CanMutate
            /\ nodes' = ImportNodes(json)
            /\ edges' = json.edges
            /\ rebuildIndex
            /\ persistImmediate
            /\ incrementStructure
            /\ lastOp' = OpRemoving("importGraph", from, "ok", Len(nodes))
            /\ UNCHANGED minorCalls
    /\ UNCHANGED <<nextId, exported, exportedFrom, initialized, hung, reloads, gen, server, transport, quotaExceeded>>

\* importGraph(json) with the string exportGraph() returned
importExported ==
    /\ exported # <<>>
    /\ importGraph("exported", exported[1])

clearAll ==
    /\ Running
    /\ CanMutate
    /\ nextId <= Len(IdPool)
    /\ nodes' = <<CreateRootNode(CreateId)>>
    /\ edges' = <<>>
    /\ nextId' = nextId + 1
    /\ rebuildIndex
    /\ persistImmediate
    /\ incrementStructure
    /\ lastOp' = OpRemoving("clearAll", "", CreateId, Len(nodes))
    /\ UNCHANGED <<exported, exportedFrom, initialized, hung, minorCalls, reloads, gen, server, transport, quotaExceeded>>

\* ---------------------------------------------------------------- import inputs
JNode(id, text, parentId, childIds, isRoot, isGenerating) ==
    [id |-> id, position |-> Origin,
     data |-> [id |-> id, text |-> text, parentId |-> parentId, childIds |-> childIds,
               isRoot |-> isRoot, isGenerating |-> isGenerating,
               generatedTextStart |-> 0, error |-> Absent]]
JEdge(source, target) == NewEdge(source, target)
JDoc(kind, hasNodes, hasEdges, ns, es) ==
    [kind |-> kind, hasNodes |-> hasNodes, hasEdges |-> hasEdges, nodes |-> ns, edges |-> es]
JObject(ns, es) == JDoc("object", TRUE, TRUE, ns, es)

JRoot(childIds) == JNode("x1", "ab", Null, childIds, TRUE, FALSE)

RejectedInputs ==
    { JDoc("garbage", FALSE, FALSE, <<>>, <<>>),          \* 'not json'
      JDoc("null", FALSE, FALSE, <<>>, <<>>),             \* 'null'
      JDoc("object", FALSE, TRUE, <<>>, <<>>),            \* {edges: []}
      JDoc("object", TRUE, FALSE, <<>>, <<>>),            \* {nodes: []}
      JObject(<<>>, <<>>),                                \* {nodes: [], edges: []}
      JObject(<<JNode("x1", "ab", Null, <<>>, FALSE, FALSE)>>, <<>>),           \* no root
      JObject(<<JRoot(<<"x2">>), [id |-> "x2", position |-> Origin, data |-> NoData]>>,
              <<>>),                                                            \* no data
      JObject(<<JNode("x1", NotAString, Null, <<>>, TRUE, FALSE)>>, <<>>),      \* text: 123
      JObject(<<JRoot(<<>>), JNode(Absent, "ab", "x1", <<>>, FALSE, FALSE)>>, <<>>) } \* no id

AcceptedInputs ==
    { \* a well-formed tree, one node still flagged generating
      JObject(<<JRoot(<<"x2">>), JNode("x2", "ab", "x1", <<>>, FALSE, TRUE)>>,
              <<JEdge("x1", "x2")>>),
      \* two roots
      JObject(<<JRoot(<<>>), JNode("x2", "", Null, <<>>, TRUE, FALSE)>>, <<>>),
      \* childIds and edges that disagree with parentId
      JObject(<<JRoot(<<>>), JNode("x2", "ab", "x1", <<>>, FALSE, FALSE)>>, <<>>),
      \* a cycle below the root
      JObject(<<JRoot(<<"x2">>), JNode("x2", "ab", "x3", <<"x3">>, FALSE, FALSE),
                JNode("x3", "ab", "x2", <<"x2">>, FALSE, FALSE)>>,
              <<JEdge("x1", "x2"), JEdge("x2", "x3"), JEdge("x3", "x2")>>) }

ImportInputs == RejectedInputs \cup AcceptedInputs

\* ---------------------------------------------------------------- generation
\* generation.svelte.ts.  gen holds activeRequests, one record per call of
\* runBatchGeneration (its closure: requests, buffers, prompts, rafScheduled,
\* completed), the requestAnimationFrame callbacks queued in the browser, and
\* the number of events the transport has delivered and of calls refused.  A batch record also keeps
\* history: the node ids before it started, the events received per id, and
\* each node's data when its id became terminal.
MaxEvents == 3     \* transport events delivered and calls refused in one run
\* requests in one POST to the batch endpoint, and the largest maxParallel sent
MaxRequests == 3
MaxParallel == 2
\* lines in the body of one response of the batch endpoint
MaxLines == 3

DefaultUrl == "https://api.openai.com/v1"
\* settingsStore.current, as far as generateForNode reads it
GenSettings ==
    { [apiKey |-> "k", apiBaseUrl |-> DefaultUrl, numGenerations |-> 2],
      [apiKey |-> "", apiBaseUrl |-> DefaultUrl, numGenerations |-> 1],
      [apiKey |-> "", apiBaseUrl |-> "local", numGenerations |-> 1],
      [apiKey |-> "k", apiBaseUrl |-> "local", numGenerations |-> 0] }
\* texts a user types before generating
GenTexts == {"cd", " "}
Tokens == {"x", "y"}
ErrorMessages == {"boom"}
\* the messages of what fetchCompletionStreamBatch throws: a network failure, and
\* the empty message of a response that is not ok and whose body has an error
\* without a message (message = err.error.message is undefined)
ThrownMessages == {"net", ""}
\* fetchCompletionStreamBatch returned: it threw nothing
Returned == "#returned"
StreamEnded == "Stream ended without response"

\* String.prototype.trim on the texts of the model: those made of white space
\* only become empty, the others have none at either end
Blank == {"", " "}
TrimKeepsBlank(s) == s
Trim(s) == IF s \in Blank THEN "" ELSE s

GenInit ==
    [activeRequests |-> 0, isBulkGenerating |-> FALSE, batches |-> <<>>, rafQueue |-> <<>>,
     resuming |-> <<>>, events |-> 0]

\* Map.set(k, v)
Put(f, k, v) == [x \in DOMAIN f \cup {k} |-> IF x = k THEN v ELSE f[x]]

EmptyMap == [x \in {} |-> ""]

\* getPrompt(nodeId): nodeDataMap.get(nodeId)?.text ?? ''
getPrompt(dataMap, nodeId) == IF nodeId \in DOMAIN dataMap THEN dataMap[nodeId].text ELSE ""

\* what the handlers work on: the store's nodes and data map, and gen
World == [nodes |-> nodes, dataMap |-> nodeDataMap, gen |-> gen]

\* graphStore.updateTextSilent / setError / setGenerating called from a handler
PatchW(W, field, nodeId, value) ==
    LET patched == PatchNodes(W.nodes, nodeIndexMap, field, nodeId, value)
    IN [W EXCEPT !.nodes = patched,
                 !.dataMap = PatchDataMap(W.dataMap, patched, nodeIndexMap, nodeId)]

\* history: the data of the node of id when id becomes terminal
FinalData(W, id) == IF id \in DOMAIN W.dataMap THEN W.dataMap[id] ELSE NoData

\* completed.add(id); rafScheduled.set(id, false); activeRequests--
Terminal(W, b, id) ==
    [W EXCEPT !.gen.batches[b].completed = @ \cup {id},
              !.gen.batches[b].rafScheduled = @ \ {id},
              !.gen.batches[b].final = Put(@, id, FinalData(W, id)),
              !.gen.activeRequests = @ - 1]

\* mutant: an error of one id ends the whole batch
MarkErrorEndsBatch(W, b, id, message) ==
    LET batch == W.gen.batches[b]
    IN IF id \in batch.completed THEN W
       ELSE [Terminal(PatchW(PatchW(W, "error", id, message), "isGenerating", id, FALSE), b, id)
                EXCEPT !.gen.batches[b].completed = @ \cup SeqRange(batch.requests)]

\* markError(id, message) of batch b
MarkErrorW(W, b, id, message) ==
    LET batch == W.gen.batches[b]
    IN IF id \in batch.completed THEN W
       ELSE LET buf == IF id \in DOMAIN batch.buffers THEN batch.buffers[id] ELSE ""
                prompt == IF id \in DOMAIN batch.prompts THEN batch.prompts[id] ELSE ""
                text == IF Len(buf) <= Len(prompt) THEN prompt ELSE buf
            IN Terminal(PatchW(PatchW(PatchW(W, "text", id, text), "error", id, message),
                               "isGenerating", id, FALSE), b, id)

\* mutant: markDone leaves the buffer unwritten
MarkDoneNoFlush(W, b, id) ==
    IF id \in W.gen.batches[b].completed THEN W
    ELSE Terminal(PatchW(W, "isGenerating", id, FALSE), b, id)

\* mutant: markDone does not look at completed
MarkDoneAgain(W, b, id) ==
    LET batch == W.gen.batches[b]
        flushed == IF id \in DOMAIN batch.buffers
                   THEN PatchW(W, "text", id, batch.buffers[id])
                   ELSE W
    IN Terminal(PatchW(flushed, "isGenerating", id, FALSE), b, id)

\* markDone(id) of batch b
MarkDoneW(W, b, id) ==
    LET batch == W.gen.batches[b]
    IN IF id \in batch.completed THEN W
       ELSE LET flushed == IF id \in DOMAIN batch.buffers
                           THEN PatchW(W, "text", id, batch.buffers[id])
                           ELSE W
            IN Terminal(PatchW(flushed, "isGenerating", id, FALSE), b, id)

RECURSIVE MarkErrorAll(_, _, _, _)
\* for (const req of requests) markError(req.id, message)
MarkErrorAll(W, b, ids, message) ==
    IF ids = <<>> THEN W
    ELSE MarkErrorAll(MarkErrorW(W, b, Head(ids), message), b, Tail(ids), message)

\* history: the event is added to what batch b received for id
Received(W, b, id, event) ==
    [W EXCEPT !.gen.batches[b].received =
                  Put(@, id, (IF id \in DOMAIN @ THEN @[id] ELSE <<>>) \o <<event>>),
              !.gen.events = @ + 1]

\* the part of the state a handler leaves behind
Commit(W) ==
    /\ nodes' = W.nodes
    /\ nodeDataMap' = W.dataMap
    /\ gen' = W.gen

Streaming(b) == b \in 1..Len(gen.batches) /\ gen.batches[b].streaming

\* the transport of batch b may deliver one more event
CanDeliver(b) == ~hung /\ Streaming(b) /\ gen.events < MaxEvents

\* ids the transport names in the events of batch b
EventIds(b) == SeqRange(gen.batches[b].requests)

HandlerFrame ==
    UNCHANGED <<edges, nodeIndexMap, structureVersion, structureScheduled, nextId,
                exported, exportedFrom, initialized, hung, minorCalls, reloads,
                turnMutations, server, transport, quotaExceeded>>

\* mutant: the token is put in front of the buffer
OnTokenInFront(W, b, id, token) ==
    LET batch == W.gen.batches[b]
    IN IF id \notin DOMAIN batch.buffers THEN W
       ELSE LET appended == [W EXCEPT !.gen.batches[b].buffers[id] = token \o @]
            IN IF id \in batch.rafScheduled THEN appended
               ELSE [appended EXCEPT !.gen.batches[b].rafScheduled = @ \cup {id},
                                     !.gen.rafQueue = Append(@, <<b, id>>)]

\* onToken(id, token) of batch b
OnTokenW(W, b, id, token) ==
    LET batch == W.gen.batches[b]
    IN IF id \notin DOMAIN batch.buffers THEN W
       ELSE LET appended == [W EXCEPT !.gen.batches[b].buffers[id] = @ \o token]
            IN IF id \in batch.rafScheduled THEN appended
               ELSE [appended EXCEPT !.gen.batches[b].rafScheduled = @ \cup {id},
                                     !.gen.rafQueue = Append(@, <<b, id>>)]

onToken(b, id, token) ==
    /\ CanDeliver(b)
    /\ Commit(OnTokenW(Received(World, b, id, token), b, id, token))
    /\ lastOp' = Op("onToken", id, "")
    /\ HandlerFrame
    /\ UNCHANGED <<persistTimer, timeouts, storage>>

\* onDone(id) of batch b: markDone(id); graphStore.persist()
onDone(b, id) ==
    /\ CanDeliver(b)
    /\ Commit(MarkDoneW(Received(World, b, id, "done"), b, id))
    /\ persist_
    /\ lastOp' = Op("onDone", id, "")
    /\ HandlerFrame

\* onError(id, error) of batch b: markError(id, error.message); graphStore.persist()
onError(b, id, message) ==
    /\ CanDeliver(b)
    /\ Commit(MarkErrorW(Received(World, b, id, "error"), b, id, message))
    /\ persist_
    /\ lastOp' = Op("onError", id, "")
    /\ HandlerFrame

\* the callback onToken handed to requestAnimationFrame for id of batch b
FlushW(W, b, id) ==
    LET cleared == [W EXCEPT !.gen.batches[b].rafScheduled = @ \ {id}]
    IN IF id \in DOMAIN W.gen.batches[b].buffers
       THEN PatchW(cleared, "text", id, W.gen.batches[b].buffers[id])
       ELSE cleared

RECURSIVE FlushAll(_, _)
FlushAll(W, queue) ==
    IF queue = <<>> THEN W
    ELSE FlushAll(FlushW(W, Head(queue)[1], Head(queue)[2]), Tail(queue))

\* the browser renders a frame: the callbacks queued by then run, in their order
AnimationFrame ==
    /\ ~hung
    /\ gen.resuming = <<>>
    /\ gen.rafQueue # <<>>
    /\ Commit(FlushAll([World EXCEPT !.gen.rafQueue = <<>>], gen.rafQueue))
    /\ lastOp' = Op("animationFrame", "", "")
    /\ HandlerFrame
    /\ UNCHANGED <<persistTimer, timeouts, storage>>

\* mutant: only the first source is cleared
ClearGeneratingOfFirst(W, ids) ==
    IF ids = <<>> THEN W ELSE PatchW(W, "isGenerating", Head(ids), FALSE)

RECURSIVE ClearGenerating(_, _)
\* for (const leaf of leaves) graphStore.setGenerating(leaf.id, false)
ClearGenerating(W, ids) ==
    IF ids = <<>> THEN W
    ELSE ClearGenerating(PatchW(W, "isGenerating", Head(ids), FALSE), Tail(ids))

\* mutant: the orphan loop is left out
TransportEndsWithoutOrphans(W, b, thrown) ==
    LET batch == W.gen.batches[b]
        caught == IF thrown = Returned THEN W ELSE MarkErrorAll(W, b, batch.requests, thrown)
    IN [caught EXCEPT !.gen.batches[b].streaming = FALSE,
                      !.gen.batches[b].outcome = thrown,
                      !.gen.resuming = Append(@, b)]

\* fetchCompletionStreamBatch of batch b returns (thrown = Returned) or throws, and
\* the rest of runBatchGeneration runs: the catch block and the orphan loop.
\* The promise of runBatchGeneration is then resolved, and its caller is
\* queued to resume, behind the callers queued before it
TransportEndsW(W, b, thrown) ==
    LET batch == W.gen.batches[b]
        caught == IF thrown = Returned THEN W ELSE MarkErrorAll(W, b, batch.requests, thrown)
        resolved == MarkErrorAll(caught, b, batch.requests, StreamEnded)
    IN [resolved EXCEPT !.gen.batches[b].streaming = FALSE,
                        !.gen.batches[b].outcome = thrown,
                        !.gen.resuming = Append(@, b)]

\* hadOrphans: an id was not terminal when the orphan loop started
HadOrphans(b, thrown) ==
    /\ thrown = Returned
    /\ \E id \in SeqRange(gen.batches[b].requests) : id \notin gen.batches[b].completed

TransportEnds(b, thrown) ==
    /\ ~hung
    /\ Streaming(b)
    /\ Commit(TransportEndsW(World, b, thrown))
    /\ IF HadOrphans(b, thrown) THEN persist_ ELSE UNCHANGED <<persistTimer, timeouts, storage>>
    /\ lastOp' = Op("transportEnds", gen.batches[b].source, thrown)
    /\ HandlerFrame

\* the rest of generateForNode or generateAllLeaves after
\* `await runBatchGeneration(...)`, for the batch b whose caller resumes
CallerResumesW(W, b) ==
    LET batch == W.gen.batches[b]
    IN [ClearGenerating(W, batch.sources)
           EXCEPT !.gen.isBulkGenerating = IF batch.bulk THEN FALSE ELSE @,
                  !.gen.resuming = Tail(@)]

\* the microtask that resumes the caller queued first
CallerResumes ==
    /\ ~hung
    /\ gen.resuming # <<>>
    /\ Commit(CallerResumesW(World, Head(gen.resuming)))
    /\ lastOp' = Op(IF gen.batches[Head(gen.resuming)].bulk
                    THEN "generateAllLeaves" ELSE "generateForNode",
                    gen.batches[Head(gen.resuming)].source, "resolved")
    /\ HandlerFrame
    /\ UNCHANGED <<persistTimer, timeouts, storage>>

\* the call that made batch b has resolved
Resolved(g, b) == ~g.batches[b].streaming /\ \A k \in 1..Len(g.resuming) : g.resuming[k] # b

\* the ids runBatchGeneration gets from createId(), one per placeholder
PlaceholderIds(count) == [i \in 1..count |-> IdPool[nextId + i - 1]]

RECURSIVE AddPlaceholders(_, _, _, _)
\* for (let i = 0; i < entry.count; i++) graphStore.addChildStreaming(parentId, prompt, prompt.length)
AddPlaceholders(doc, parentId, prompt, ids) ==
    IF ids = <<>> THEN doc
    ELSE AddPlaceholders(
             [nodes |-> AddChildNodes(doc.nodes, parentId,
                                      NewNode(Head(ids), prompt, parentId, FALSE, TRUE, Len(prompt))),
              edges |-> AddChildEdges(doc.edges, parentId, Head(ids))],
             parentId, prompt, Tail(ids))

\* the closure of one runBatchGeneration and what its caller does when it
\* resolves (sources, bulk); source, count, parents, before, activeBefore,
\* received and final are history
Batch(sources, bulk, count, ids, prompts, parents, before) ==
    [source |-> IF bulk THEN Null ELSE sources[1], sources |-> sources, bulk |-> bulk,
     count |-> count, requests |-> ids,
     buffers |-> prompts, prompts |-> prompts, parents |-> parents,
     rafScheduled |-> {}, completed |-> {}, streaming |-> TRUE, outcome |-> Returned,
     before |-> before, activeBefore |-> gen.activeRequests,
     received |-> [id \in SeqRange(ids) |-> <<>>], final |-> EmptyMap]

\* the batch of generateForNode(source)
NewBatch(source, prompt, count, ids, before) ==
    Batch(<<source>>, FALSE, count, ids, [id \in SeqRange(ids) |-> prompt],
          [id \in SeqRange(ids) |-> source], before)

\* the precondition that makes generateForNode throw, "" when none does
GenerateError(nodeId, settings) ==
    IF settings.apiKey = "" /\ settings.apiBaseUrl = DefaultUrl THEN "API key is required"
    ELSE IF Trim(getPrompt(nodeDataMap, nodeId)) = "" THEN "Node has no text to generate from"
    ELSE ""

RECURSIVE MarkSourcesW(_, _)
\* setGenerating(id, true); setError(id, undefined) for every source, in order
MarkSourcesW(W, sources) ==
    IF sources = <<>> THEN W
    ELSE MarkSourcesW(PatchW(PatchW(W, "isGenerating", Head(sources), TRUE),
                             "error", Head(sources), Undefined),
                      Tail(sources))

\* runBatchGeneration made no request and returned before it called the
\* transport: its caller, which marked the sources, is queued to resume
ReturnsEmpty(sources, bulk, count) ==
    LET marked == MarkSourcesW(World, sources)
        batch == [Batch(sources, bulk, count, <<>>, EmptyMap, EmptyMap, NodeIds(nodes))
                     EXCEPT !.streaming = FALSE]
    IN /\ gen.events < MaxEvents
       /\ Commit([marked EXCEPT !.gen.batches = Append(@, batch),
                                !.gen.resuming = Append(@, Len(gen.batches) + 1),
                                !.gen.isBulkGenerating = IF bulk THEN TRUE ELSE @,
                                !.gen.events = @ + 1])
       /\ UNCHANGED <<edges, nodeIndexMap, structureVersion, structureScheduled, persistTimer,
                      timeouts, storage, nextId, turnMutations>>

\* generateForNode(nodeId) up to its await: the checks, the two patches of the
\* source, and runBatchGeneration up to the call of the transport, or up to its
\* return when it has no request to make
generateForNode(nodeId, settings) ==
    /\ Running
    /\ IF GenerateError(nodeId, settings) # ""
       THEN /\ gen.events < MaxEvents
            /\ gen' = [gen EXCEPT !.events = @ + 1]
            /\ lastOp' = Op("generateForNode", nodeId, GenerateError(nodeId, settings))
            /\ UNCHANGED <<nodes, edges, nodeDataMap, nodeIndexMap, structureVersion,
                           structureScheduled, persistTimer, timeouts, storage, nextId,
                           turnMutations, minorCalls>>
       ELSE LET prompt == getPrompt(nodeDataMap, nodeId)
                ids == PlaceholderIds(settings.numGenerations)
                marked == PatchNodes(PatchNodes(nodes, nodeIndexMap, "isGenerating", nodeId, TRUE),
                                     nodeIndexMap, "error", nodeId, Undefined)
                doc == AddPlaceholders([nodes |-> marked, edges |-> edges], nodeId, prompt, ids)
            IN IF settings.numGenerations <= 0
               THEN /\ ReturnsEmpty(<<nodeId>>, FALSE, settings.numGenerations)
                    /\ lastOp' = Op("generateForNode", nodeId, "empty")
                    /\ UNCHANGED minorCalls
               ELSE
               /\ CanMutate
               /\ FindIndex(nodes, nodeId) # 0
               /\ nextId + settings.numGenerations - 1 <= Len(IdPool)
               /\ nodes' = doc.nodes
               /\ edges' = doc.edges
               /\ nextId' = nextId + Len(ids)
               /\ rebuildIndex
               /\ persist_
               /\ structureScheduled' = TRUE
               /\ turnMutations' = IF turnMutations + Len(ids) < MaxTurnCount
                                    THEN turnMutations + Len(ids) ELSE MaxTurnCount
               /\ UNCHANGED structureVersion
               /\ gen' = [gen EXCEPT !.activeRequests = @ + Len(ids),
                                     !.batches = Append(@, NewBatch(nodeId, prompt, settings.numGenerations,
                                                                    ids, NodeIds(nodes)))]
               /\ lastOp' = Op("generateForNode", nodeId, "streaming")
               /\ UNCHANGED minorCalls
    /\ UNCHANGED <<exported, exportedFrom, initialized, hung, reloads, server, transport, quotaExceeded>>

\* ---------------------------------------------------------------- generateAllLeaves
\* a number the settings panel stored, parseFloat of what was typed, as the
\* whole numbers around it: the number n, and a number between n and n + 1
Whole(n) == [floor |-> n, ceil |-> n]
Between(n) == [floor |-> n, ceil |-> n + 1]

\* the times the body of for (let i = 0; i < count; i++) runs
LoopCount(count) == IF count.ceil > 0 THEN count.ceil ELSE 0

\* the whole number that slice makes of its argument: the fraction is dropped
Truncated(x) == IF x.floor >= 0 THEN x.floor ELSE x.ceil

\* len > max, for a whole len
Exceeds(len, max) == len > max.floor

\* settingsStore.current, as far as generateAllLeaves reads it: whole numbers
\* from 1 on, as the panel offers, and 0, a negative number and a fraction, which
\* it stores as typed
LeafSettings ==
    { [numGenerations |-> Whole(1), maxLeafGenerations |-> Whole(2)],
      [numGenerations |-> Whole(2), maxLeafGenerations |-> Whole(1)],
      [numGenerations |-> Whole(2), maxLeafGenerations |-> Whole(2)],
      [numGenerations |-> Whole(0), maxLeafGenerations |-> Whole(2)],
      [numGenerations |-> Whole(-1), maxLeafGenerations |-> Whole(2)],
      [numGenerations |-> Between(1), maxLeafGenerations |-> Whole(1)],
      [numGenerations |-> Whole(1), maxLeafGenerations |-> Whole(0)],
      [numGenerations |-> Whole(1), maxLeafGenerations |-> Whole(-1)],
      [numGenerations |-> Whole(1), maxLeafGenerations |-> Between(1)] }

\* nodes.filter(n => n.data.childIds.length === 0 && n.data.text.trim().length > 0), as ids
Candidates(ns) ==
    LET kept == SeqFilterIdx([i \in 1..Len(ns) |->
                                 IF ns[i].data.childIds = <<>> /\ Trim(ns[i].data.text) # ""
                                 THEN ns[i].id ELSE Null],
                             {ns[i].id : i \in 1..Len(ns)}, 1)
    IN kept

\* the number of elements of array.slice(0, end) for an array of length len and
\* a whole end: a negative end counts from the end of the array
SliceLength(len, end) ==
    IF end >= len THEN len
    ELSE IF end >= 0 THEN end
    ELSE IF len + end > 0 THEN len + end
    ELSE 0

\* shuffle(leaves).slice(0, max): as many of the leaves as the slice keeps, in
\* any order
Shuffled(leaves, max) ==
    {chosen \in [1..SliceLength(Len(leaves), Truncated(max)) -> SeqRange(leaves)] :
        \A i, j \in 1..SliceLength(Len(leaves), Truncated(max)) :
            chosen[i] = chosen[j] => i = j}

\* the leaves generateAllLeaves may work on
Selections(ns, settings) ==
    IF Exceeds(Len(Candidates(ns)), settings.maxLeafGenerations)
    THEN Shuffled(Candidates(ns), settings.maxLeafGenerations)
    ELSE {Candidates(ns)}

RECURSIVE MarkLeaves(_, _)
\* for (const leaf of leaves) { setGenerating(leaf.id, true); setError(leaf.id, undefined) }
MarkLeaves(ns, leaves) ==
    IF leaves = <<>> THEN ns
    ELSE MarkLeaves(PatchNodes(PatchNodes(ns, nodeIndexMap, "isGenerating", Head(leaves), TRUE),
                               nodeIndexMap, "error", Head(leaves), Undefined),
                    Tail(leaves))

RECURSIVE AddEntries(_, _, _, _)
\* runBatchGeneration's loop over the entries: count placeholders below each leaf
AddEntries(doc, leaves, count, ids) ==
    IF leaves = <<>> THEN doc
    ELSE AddEntries(AddPlaceholders(doc, Head(leaves), getPrompt(nodeDataMap, Head(leaves)),
                                    SubSeq(ids, 1, count)),
                    Tail(leaves), count, SubSeq(ids, count + 1, Len(ids)))

\* the position of x in a sequence that has it
IndexOf(seq, x) == SetMin({i \in 1..Len(seq) : seq[i] = x})

\* the leaf whose entry the placeholder id belongs to: count ids for each leaf
LeafOf(leaves, count, ids, id) == leaves[((IndexOf(ids, id) - 1) \div count) + 1]

\* generateAllLeaves() up to its await, with the leaves the shuffle left: it
\* returns at once when no node is a candidate; runBatchGeneration returns
\* before it calls the transport when the leaves left get no placeholder
generateAllLeaves(settings, leaves) ==
    /\ Running
    /\ leaves \in Selections(nodes, settings)
    /\ IF Candidates(nodes) = <<>>
       THEN /\ gen.events < MaxEvents
            /\ gen' = [gen EXCEPT !.events = @ + 1]
            /\ lastOp' = Op("generateAllLeaves", "", "nothing")
            /\ UNCHANGED <<nodes, edges, nodeDataMap, nodeIndexMap, structureVersion,
                           structureScheduled, persistTimer, timeouts, storage, nextId,
                           turnMutations>>
       ELSE IF leaves = <<>> \/ LoopCount(settings.numGenerations) = 0
       THEN /\ ReturnsEmpty(leaves, TRUE, LoopCount(settings.numGenerations))
            /\ lastOp' = Op("generateAllLeaves", "", "empty")
       ELSE LET count == LoopCount(settings.numGenerations)
                total == Len(leaves) * count
                ids == PlaceholderIds(total)
                doc == AddEntries([nodes |-> MarkLeaves(nodes, leaves), edges |-> edges],
                                  leaves, count, ids)
            IN /\ CanMutate
               /\ nextId + total - 1 <= Len(IdPool)
               /\ nodes' = doc.nodes
               /\ edges' = doc.edges
               /\ nextId' = nextId + total
               /\ rebuildIndex
               /\ persist_
               /\ structureScheduled' = TRUE
               /\ turnMutations' = IF turnMutations + total < MaxTurnCount
                                    THEN turnMutations + total ELSE MaxTurnCount
               /\ UNCHANGED structureVersion
               /\ gen' = [gen EXCEPT
                            !.activeRequests = @ + total,
                            !.isBulkGenerating = TRUE,
                            !.batches = Append(@,
                                Batch(leaves, TRUE, count, ids,
                                      [id \in SeqRange(ids) |->
                                          getPrompt(nodeDataMap,
                                                    LeafOf(leaves, count,
                                                           ids, id))],
                                      [id \in SeqRange(ids) |->
                                          LeafOf(leaves, count, ids, id)],
                                      NodeIds(nodes)))]
               /\ lastOp' = Op("generateAllLeaves", "", "streaming")
    /\ UNCHANGED <<exported, exportedFrom, initialized, hung, minorCalls, reloads, server, transport, quotaExceeded>>

\* ---------------------------------------------------------------- batch endpoint
\* POST /api/completions/batch: the task loop of the stream's start()
\* phase: "idle" before a POST, "racing" at await Promise.race(executing),
\* "joining" at await Promise.all(executing), "closed" after controller.close(),
\* "failed" when start() has thrown;
\* next is the index of the next task of tasks to call, inFlight the requests
\* whose processRequest has not returned, executing the Set of the loop,
\* rejected the promises of executing that are rejected,
\* woken whether a promise of the pending race has resolved, cancelled whether
\* the client has cancelled the response stream (controller.enqueue throws
\* from then on), sent the types of the events enqueued on the response stream
\* for each request, in order, sentinels the number of `data: [DONE]` lines
\* enqueued, and results how processRequest ended for each request
ServerIdle ==
    [phase |-> "idle", maxParallel |-> 0, total |-> 0, next |-> 1, inFlight |-> {},
     executing |-> {}, rejected |-> {}, woken |-> FALSE, cancelled |-> FALSE,
     results |-> EmptyMap, sent |-> EmptyMap, sentinels |-> 0]

\* the outcomes of processRequest that returns: its last event for the id
Outcomes == {"done", "error"}

\* processRequest threw: send threw in its try block and again in its catch
Rejected == "rejected"

\* how the upstream call of a request ends: a status that is not ok (or no
\* body), a `data: [DONE]` line, the end of the body without one, or a fetch or
\* read that throws
Endings == {"status", "sentinel", "eof", "throw"}

OutcomeOf(ending) == IF ending \in {"sentinel", "eof"} THEN "done" ELSE "error"

\* mutant: after the done for `data: [DONE]` the function goes on to its last send
TerminalEventsFallThrough(ending) ==
    IF ending = "sentinel" THEN <<"done", "done">> ELSE <<OutcomeOf(ending)>>

\* what processRequest sends when the upstream call ends
TerminalEvents(ending) == <<OutcomeOf(ending)>>

\* send({id, type}) for request i
Send(sv, i, types) ==
    [sv EXCEPT !.sent = Put(@, i, (IF i \in DOMAIN @ THEN @[i] ELSE <<>>) \o types)]

\* the number of token events sent so far for request i
TokensSent(sv, i) ==
    IF i \in DOMAIN sv.sent
    THEN Cardinality({k \in 1..Len(sv.sent[i]) : sv.sent[i][k] = "token"}) ELSE 0

RECURSIVE AllTokensSent(_, _)
AllTokensSent(sv, n) == IF n = 0 THEN 0 ELSE TokensSent(sv, n) + AllTokensSent(sv, n - 1)

\* mutant: the loop waits only above the cap
AboveCap(size, maxParallel) == size > maxParallel

\* if (executing.size >= maxParallel)
AtCap(size, maxParallel) == size >= maxParallel

\* for (const task of tasks) { ... } up to the next await
RECURSIVE RunLoop(_)
RunLoop(sv) ==
    IF sv.next > sv.total
    THEN [sv EXCEPT !.phase = "joining", !.woken = FALSE]
    ELSE LET started == [sv EXCEPT !.inFlight = @ \cup {sv.next},
                                   !.executing = @ \cup {sv.next},
                                   !.next = @ + 1]
         IN IF AtCap(Cardinality(started.executing), started.maxParallel)
            THEN [started EXCEPT !.phase = "racing", !.woken = FALSE]
            ELSE RunLoop(started)

ClientFrame ==
    UNCHANGED <<nodes, edges, nodeDataMap, nodeIndexMap, structureVersion, structureScheduled,
                persistTimer, timeouts, storage, nextId, exported, exportedFrom, initialized,
                hung, minorCalls, reloads, turnMutations, lastOp, gen, transport, quotaExceeded>>

\* POST with total requests and the given maxParallel: start() runs to its first await
Post(maxParallel, total) ==
    /\ server.phase = "idle"
    /\ server' = RunLoop([ServerIdle EXCEPT !.maxParallel = maxParallel, !.total = total])
    /\ ClientFrame

\* processRequest of request i reads a `data: ` line that carries text and sends
\* its token event; when send throws, the catch around JSON.parse swallows it
UpstreamData(i) ==
    /\ i \in server.inFlight
    /\ AllTokensSent(server, server.total) < MaxEvents
    /\ server' = IF server.cancelled THEN server ELSE Send(server, i, <<"token">>)
    /\ ClientFrame

\* processRequest of request i ends: it returns after its done or error event,
\* or, when send throws, it throws out of its catch block; the status is known
\* before a line is read
RequestFinishes(i, ending) ==
    /\ i \in server.inFlight
    /\ ending = "status" => TokensSent(server, i) = 0
    /\ server' = IF server.cancelled
                  THEN [server EXCEPT !.inFlight = @ \ {i},
                                      !.rejected = @ \cup {i},
                                      !.results = Put(@, i, Rejected)]
                  ELSE [Send(server, i, TerminalEvents(ending))
                           EXCEPT !.inFlight = @ \ {i},
                                  !.results = Put(@, i, OutcomeOf(ending))]
    /\ ClientFrame

\* the then-callback of task() for request i, whose processRequest has
\* returned: executing.delete(p), and p is fulfilled
Settles(i) ==
    /\ i \in server.executing \ (server.inFlight \cup server.rejected)
    /\ server' = [server EXCEPT !.executing = @ \ {i},
                                 !.woken = @ \/ server.phase = "racing"]
    /\ ClientFrame

\* start() continues after its await: the loop after Promise.race, the close
\* after Promise.all; it throws when the awaited promise is rejected or
\* controller.enqueue throws
Resume ==
    /\ \/ /\ server.phase = "racing"
          /\ server.woken
          /\ server' = RunLoop(server)
       \/ /\ server.phase = "racing"
          /\ ~server.woken
          /\ server.rejected # {}
          /\ server' = [server EXCEPT !.phase = "failed"]
       \/ /\ server.phase = "joining"
          /\ server.rejected # {}
          /\ server' = [server EXCEPT !.phase = "failed"]
       \/ /\ server.phase = "joining"
          /\ server.executing = {}
          /\ server' = IF server.cancelled
                        THEN [server EXCEPT !.phase = "failed"]
                        ELSE [server EXCEPT !.phase = "closed", !.sentinels = @ + 1]
    /\ ClientFrame

\* the client cancels the response stream while start() runs
Cancel ==
    /\ server.phase \in {"racing", "joining"}
    /\ ~server.cancelled
    /\ server' = [server EXCEPT !.cancelled = TRUE]
    /\ ClientFrame

\* ---------------------------------------------------------------- transport client
\* fetchCompletionStreamBatch: the read loop.  The body of the response is a
\* sequence of pieces of text; a line of the body is two pieces and the piece
\* "\n".  transport.wire is what the reader has not yet handed out, buffer the
\* text kept between reads, calls the callbacks invoked so far; body (the
\* lines of the whole body) and open (the last line of the body has no "\n"
\* after it) are history.  The lines of the model carry no blanks around them,
\* so line.trim() leaves them as they are.
NewLine == "\n"

\* the lines a body is made of, each cut in two pieces: a token event, a done
\* event, an error event without text, one with an empty text, one with a
\* message, an event of a type the client does not know, a line whose JSON is
\* cut short, a comment, an empty line, the sentinel
BodyLines ==
    { <<"da", "ta: {id:a,type:token,text:x}">>,
      <<"data: {id:b,ty", "pe:done}">>,
      <<"data: ", "{id:a,type:error}">>,
      <<"data: {id:a,type:error,", "text:}">>,
      <<"data: {id:b,type:error,te", "xt:boom}">>,
      <<"data: {id:a,", "type:ping}">>,
      <<"data: {id:a,", "type:tok">>,
      <<": ", "keep-alive">>,
      <<"", "">>,
      <<"data: [D", "ONE]">> }

LineText(line) == line[1] \o line[2]

\* trimmed.startsWith('data: ') and trimmed.slice(6), for the lines of the model
DataPayload ==
    [text \in {LineText(l) : l \in BodyLines} |->
        CASE text = "data: {id:a,type:token,text:x}" -> <<"{id:a,type:token,text:x}">>
          [] text = "data: {id:b,type:done}" -> <<"{id:b,type:done}">>
          [] text = "data: {id:a,type:error}" -> <<"{id:a,type:error}">>
          [] text = "data: {id:a,type:error,text:}" -> <<"{id:a,type:error,text:}">>
          [] text = "data: {id:b,type:error,text:boom}" -> <<"{id:b,type:error,text:boom}">>
          [] text = "data: {id:a,type:ping}" -> <<"{id:a,type:ping}">>
          [] text = "data: {id:a,type:tok" -> <<"{id:a,type:tok">>
          [] text = "data: [DONE]" -> <<"[DONE]">>
          [] OTHER -> <<>>]

\* JSON.parse of a payload: <<event>>, or <<>> when it throws
JsonParse(payload) ==
    CASE payload = "{id:a,type:token,text:x}" -> <<[id |-> "a", type |-> "token", text |-> "x"]>>
      [] payload = "{id:b,type:done}" -> <<[id |-> "b", type |-> "done", text |-> Undefined]>>
      [] payload = "{id:a,type:error}" -> <<[id |-> "a", type |-> "error", text |-> Undefined]>>
      [] payload = "{id:a,type:error,text:}" -> <<[id |-> "a", type |-> "error", text |-> ""]>>
      [] payload = "{id:b,type:error,text:boom}" ->
           <<[id |-> "b", type |-> "error", text |-> "boom"]>>
      [] payload = "{id:a,type:ping}" -> <<[id |-> "a", type |-> "ping", text |-> Undefined]>>
      [] OTHER -> <<>>

Call(cb, id, text) == [cb |-> cb, id |-> id, text |-> text]

\* the values of event.text that are falsy: a missing text, null, ''
Falsy == {Undefined, Null, ""}

\* switch (event.type): the callback invoked for an event, if any; onError gets
\* new Error(event.text || 'Unknown error')
Dispatch(event) ==
    CASE event.type = "token" -> <<Call("onToken", event.id, event.text)>>
      [] event.type = "done" -> <<Call("onDone", event.id, Undefined)>>
      [] event.type = "error" ->
           <<Call("onError", event.id,
                  IF event.text \in Falsy THEN "Unknown error" ELSE event.text)>>
      [] OTHER -> <<>>

\* mutant: a line that cannot be parsed ends the read loop
ProcessLineStrict(text) ==
    IF text = "" \/ DataPayload[text] = <<>> THEN [calls |-> <<>>, returned |-> FALSE]
    ELSE IF text = "data: [DONE]" THEN [calls |-> <<>>, returned |-> TRUE]
    ELSE IF JsonParse(DataPayload[text][1]) = <<>> THEN [calls |-> <<>>, returned |-> TRUE]
    ELSE [calls |-> Dispatch(JsonParse(DataPayload[text][1])[1]), returned |-> FALSE]

\* the body of `for (const line of lines)` for one line, trimmed: the callbacks
\* it invokes, and whether it returns from the function
ProcessLine(text) ==
    IF text = "" \/ DataPayload[text] = <<>> THEN [calls |-> <<>>, returned |-> FALSE]
    ELSE IF text = "data: [DONE]" THEN [calls |-> <<>>, returned |-> TRUE]
    ELSE IF JsonParse(DataPayload[text][1]) = <<>> THEN [calls |-> <<>>, returned |-> FALSE]
    ELSE [calls |-> Dispatch(JsonParse(DataPayload[text][1])[1]), returned |-> FALSE]

TransportIdle ==
    [phase |-> "idle", body |-> <<>>, open |-> FALSE, wire |-> <<>>, buffer |-> "",
     calls |-> <<>>]

\* the pieces of a body, line after line; an open body lacks the last "\n"
RECURSIVE Wire(_, _)
Wire(lines, open) ==
    IF lines = <<>> THEN <<>>
    ELSE IF open /\ Len(lines) = 1 THEN <<Head(lines)[1], Head(lines)[2]>>
    ELSE <<Head(lines)[1], Head(lines)[2], NewLine>> \o Wire(Tail(lines), open)

\* buffer += chunk; lines = buffer.split('\n'); buffer = lines.pop(); and the
\* loop over lines, piece by piece of the chunk
RECURSIVE Feed(_, _)
Feed(t, chunk) ==
    IF chunk = <<>> \/ t.phase = "returned" THEN t
    ELSE IF Head(chunk) # NewLine
         THEN Feed([t EXCEPT !.buffer = @ \o Head(chunk)], Tail(chunk))
         ELSE LET done == ProcessLine(t.buffer)
              IN Feed([t EXCEPT !.buffer = "",
                                !.calls = @ \o done.calls,
                                !.phase = IF done.returned THEN "returned" ELSE @],
                      Tail(chunk))

ServerFrame ==
    UNCHANGED <<nodes, edges, nodeDataMap, nodeIndexMap, structureVersion, structureScheduled,
                persistTimer, timeouts, storage, nextId, exported, exportedFrom, initialized,
                hung, minorCalls, reloads, turnMutations, lastOp, gen, server, quotaExceeded>>

\* fetch() resolves with a response whose body will be these lines
Fetch(lines, open) ==
    /\ transport.phase = "idle"
    /\ open => lines # <<>>
    /\ transport' = [TransportIdle EXCEPT !.phase = "reading", !.body = lines, !.open = open,
                                          !.wire = Wire(lines, open)]
    /\ ServerFrame

\* reader.read() resolves with the next n pieces of the body
ReadChunk(n) ==
    /\ transport.phase = "reading"
    /\ n \in 1..Len(transport.wire)
    /\ transport' = Feed([transport EXCEPT !.wire = SubSeq(@, n + 1, Len(@))],
                         SubSeq(transport.wire, 1, n))
    /\ ServerFrame

\* reader.read() resolves with done: the loop breaks and the function returns;
\* what is left in buffer is not looked at
ReadEnd ==
    /\ transport.phase = "reading"
    /\ transport.wire = <<>>
    /\ transport' = [transport EXCEPT !.phase = "returned"]
    /\ ServerFrame

\* ---------------------------------------------------------------- sessions
\* the page is torn down and loaded again: the module state is constructed
\* anew, timers and microtasks of the old page are gone, storage stays
Reload ==
    /\ reloads < MaxReloads
    /\ reloads' = reloads + 1
    /\ nodes' = <<>>
    /\ edges' = <<>>
    /\ nodeDataMap' = RebuildDataMap(<<>>)
    /\ nodeIndexMap' = RebuildIndexMap(<<>>)
    /\ structureVersion' = 0
    /\ structureScheduled' = FALSE
    /\ persistTimer' = FALSE
    /\ timeouts' = <<>>
    /\ initialized' = FALSE
    /\ hung' = FALSE
    /\ turnMutations' = 0
    /\ lastOp' = Op("construct", "", "")
    /\ gen' = [GenInit EXCEPT !.events = gen.events]
    /\ UNCHANGED <<storage, nextId, exported, exportedFrom, minorCalls, server, transport, quotaExceeded>>

\* the module after construction, with the ids from IdPool[firstId] on left to
\* hand out and with what an earlier session left in localStorage
Session(firstId, stored) ==
    /\ nodes = <<>>
    /\ edges = <<>>
    /\ nodeDataMap = RebuildDataMap(<<>>)
    /\ nodeIndexMap = RebuildIndexMap(<<>>)
    /\ structureVersion = 0
    /\ structureScheduled = FALSE
    /\ persistTimer = FALSE
    /\ timeouts = <<>>
    /\ storage = stored
    /\ nextId = firstId
    /\ exported = <<>>
    /\ exportedFrom = <<>>
    /\ initialized = FALSE
    /\ hung = FALSE
    /\ minorCalls = 0
    /\ reloads = 0
    /\ turnMutations = 0
    /\ lastOp = Op("construct", "", "")
    /\ gen = GenInit
    /\ server = ServerIdle
    /\ transport = TransportIdle
    /\ quotaExceeded = FALSE

\* the module after construction, nothing stored
Constructed(firstId) == Session(firstId, <<>>)

\* a tree an earlier session saved: a root with text, below it two leaves with
\* text, one of them with an error, and one leaf that is blank
SavedTree ==
    Stored(<<JNode("x1", "ab", Null, <<"x2", "x3", "x4">>, TRUE, FALSE),
                JNode("x2", "ab", "x1", <<>>, FALSE, FALSE),
                [JNode("x3", "cd", "x1", <<>>, FALSE, FALSE) EXCEPT !.data.error = "old"],
                JNode("x4", " ", "x1", <<>>, FALSE, FALSE)>>,
              <<JEdge("x1", "x2"), JEdge("x1", "x3"), JEdge("x1", "x4")>>)

\* a document an earlier session saved: a root with text
SavedRoot == Stored(<<JNode("x1", "ab", Null, <<>>, TRUE, FALSE)>>, <<>>)

\* a document an earlier session saved: an empty root and below it one node
\* with text
SavedBranch ==
    Stored(<<JNode("x1", "", Null, <<"x2">>, TRUE, FALSE),
                JNode("x2", "ab", "x1", <<>>, FALSE, FALSE)>>,
              <<JEdge("x1", "x2")>>)

\* a first visit, or a visit that finds the saved tree
InitLeaves == Session(1, <<>>) \/ Session(1, SavedTree)

\* runs that create at most four, at most three, at most two nodes
InitFour == Constructed(1)
Init == Constructed(2)
InitTwo == Constructed(3)

\* the store's operations on documents it built itself
Next ==
    \/ init
    \/ \E p \in TargetIds, a \in ChildArgs : addChild(p, a[1], a[2])
    \/ \E p \in TargetIds, a \in ChildArgs : addChildStreaming(p, a[1], a[2])
    \/ \E x \in TargetIds : deleteNode(x)
    \/ \E x \in TargetIds, t \in Texts : updateText(x, t)
    \/ \E x \in TargetIds, t \in Texts : updateTextSilent(x, t)
    \/ \E x \in TargetIds, b \in BOOLEAN : setGenerating(x, b)
    \/ \E x \in TargetIds, e \in ErrorArgs : setError(x, e)
    \/ \E x \in TargetIds : updatePositionsSilent({x})
    \/ persist
    \/ clearAll
    \/ PersistTimerFires
    \/ StructureMicrotask

Spec == Init /\ [][Next]_vars

\* the store's operations with a localStorage that fills up and is emptied
NextQuota ==
    \/ Next
    \/ QuotaChanges

SpecQuota == Init /\ [][NextQuota]_vars

\* the structural operations alone, on larger documents
NextTree ==
    \/ init
    \/ \E p \in TargetIds, a \in ChildArgs : addChild(p, a[1], a[2])
    \/ \E p \in TargetIds, a \in ChildArgs : addChildStreaming(p, a[1], a[2])
    \/ \E x \in TargetIds : deleteNode(x)
    \/ clearAll
    \/ PersistTimerFires
    \/ StructureMicrotask

SpecTree == InitFour /\ [][NextTree]_vars

\* sessions that end and start again, with importGraph given strings from
\* outside, and arrays assigned to nodes and edges
NextImport ==
    \/ init
    \/ \E p \in TargetIds, a \in ChildArgs : addChildStreaming(p, a[1], a[2])
    \/ \E x \in TargetIds : deleteNode(x)
    \/ \E x \in TargetIds, e \in ErrorArgs : setError(x, e)
    \/ \E j \in ImportInputs : importGraph("input", j)
    \/ \E v \in NodeArrays : setNodes(v)
    \/ \E v \in EdgeArrays : setEdges(v)
    \/ clearAll
    \/ PersistTimerFires
    \/ StructureMicrotask
    \/ Reload

SpecImport == InitTwo /\ [][NextImport]_vars

\* export, then anything, then import of the exported string
NextRoundTrip ==
    \/ init
    \/ \E p \in TargetIds, a \in ChildArgs : addChild(p, a[1], a[2])
    \/ \E p \in TargetIds, a \in ChildArgs : addChildStreaming(p, a[1], a[2])
    \/ \E x \in TargetIds : deleteNode(x)
    \/ \E x \in TargetIds, t \in Texts : updateText(x, t)
    \/ \E x \in TargetIds, e \in ErrorArgs : setError(x, e)
    \/ exportGraph
    \/ importExported
    \/ clearAll
    \/ PersistTimerFires
    \/ StructureMicrotask

SpecRoundTrip == Init /\ [][NextRoundTrip]_vars

\* every generation called so far has resolved
Idle == \A b \in 1..Len(gen.batches) : Resolved(gen, b)

\* the text of the next token event for id of batch b: the server streams
\* "x", "y", "x", ...
NextToken(b, id) ==
    IF Cardinality({i \in 1..Len(gen.batches[b].received[id]) :
                        gen.batches[b].received[id][i] \in Tokens}) % 2 = 0
    THEN "x" ELSE "y"

\* a task (a timer, a frame, an input of the user) starts with the microtask
\* queue empty: the structure microtask ran and every caller resumed
TurnEnded == ~structureScheduled /\ gen.resuming = <<>>

\* the read loop of a batch goes on in microtasks of its own, between the
\* continuations of the callers of other batches; it started after the structure
\* microtask of its call was queued
ReadLoopRuns == ~structureScheduled

\* how the transport call of batch b ends in the runs explored: it returns, or
\* it throws; the error without a message is that of a response that is not ok,
\* thrown before the body is read
TransportOutcomes(b) ==
    IF \A id \in EventIds(b) : gen.batches[b].received[id] = <<>>
    THEN {Returned} \cup ThrownMessages
    ELSE {Returned} \cup (ThrownMessages \ {""})

\* the page mounts once; one generation streams at a time (a call that is
\* refused may come at any time; a call that asks for no generation comes
\* first), fed by a transport that may deliver any events
NextGen ==
    \/ ~initialized /\ init
    \/ \E x \in TargetIds, t \in GenTexts : gen.batches = <<>> /\ updateText(x, t)
    \/ \E x \in TargetIds, s \in GenSettings :
          /\ Idle \/ GenerateError(x, s) # ""
          /\ s.numGenerations >= 1 \/ gen.batches = <<>>
          /\ generateForNode(x, s)
    \/ \E b \in 1..Len(gen.batches) : \E id \in EventIds(b) : onToken(b, id, NextToken(b, id))
    \/ \E b \in 1..Len(gen.batches) : \E id \in EventIds(b) : onDone(b, id)
    \/ \E b \in 1..Len(gen.batches) : \E id \in EventIds(b), m \in ErrorMessages : onError(b, id, m)
    \/ \E b \in 1..Len(gen.batches) : \E m \in TransportOutcomes(b) : TransportEnds(b, m)
    \/ CallerResumes
    \/ AnimationFrame
    \/ StructureMicrotask

SpecGen == Init /\ [][NextGen]_vars

\* the page mounts once; one generateAllLeaves or generateForNode runs, on its
\* own, fed by a transport that may deliver any events
NextLeaves ==
    \/ ~initialized /\ init
    \/ /\ gen.batches = <<>>
       /\ \E s \in LeafSettings : \E leaves \in Selections(nodes, s) : generateAllLeaves(s, leaves)
    \/ /\ gen.batches = <<>>
       /\ \E x \in NodeIds(nodes), s \in GenSettings :
             GenerateError(x, s) = "" /\ generateForNode(x, s)
    \/ \E b \in 1..Len(gen.batches) : \E id \in EventIds(b) : onToken(b, id, NextToken(b, id))
    \/ \E b \in 1..Len(gen.batches) : \E id \in EventIds(b) : onDone(b, id)
    \/ \E b \in 1..Len(gen.batches) : \E id \in EventIds(b), m \in ErrorMessages : onError(b, id, m)
    \/ \E b \in 1..Len(gen.batches) : \E m \in TransportOutcomes(b) : TransportEnds(b, m)
    \/ CallerResumes
    \/ AnimationFrame
    \/ StructureMicrotask

SpecLeaves == InitLeaves /\ [][NextLeaves]_vars

\* generations overlap: generateForNode and generateAllLeaves are called, with
\* settings that make them create placeholders, while earlier batches stream,
\* each batch fed by its own transport; the run creates at most two children
NextOverlap ==
    \/ ~initialized /\ init
    \/ /\ Running /\ CanMutate
       /\ \E x \in NodeIds(nodes), s \in GenSettings :
             GenerateError(x, s) = "" /\ s.numGenerations >= 1 /\ generateForNode(x, s)
    \/ /\ Running /\ CanMutate
       /\ \E s \in LeafSettings :
             /\ LoopCount(s.numGenerations) >= 1
             /\ \E leaves \in Selections(nodes, s) :
                   leaves # <<>> /\ generateAllLeaves(s, leaves)
    \/ StructureMicrotask
    \/ CallerResumes
    \/ /\ ReadLoopRuns
       /\ \/ \E b \in 1..Len(gen.batches) : \E id \in EventIds(b) :
                onToken(b, id, NextToken(b, id))
          \/ \E b \in 1..Len(gen.batches) : \E id \in EventIds(b) : onDone(b, id)
          \/ \E b \in 1..Len(gen.batches) : \E id \in EventIds(b), m \in ErrorMessages :
                onError(b, id, m)
          \/ \E b \in 1..Len(gen.batches) : \E m \in TransportOutcomes(b) : TransportEnds(b, m)
    \/ TurnEnded /\ AnimationFrame

SpecOverlap == Session(3, SavedRoot) /\ [][NextOverlap]_vars

\* the batch endpoint serving one POST, whose client reads on or cancels; an
\* upstream request does end, and a promise reaction that is due does run
NextServer ==
    \/ \E maxParallel \in 1..MaxParallel, total \in 0..MaxRequests : Post(maxParallel, total)
    \/ \E i \in 1..MaxRequests : UpstreamData(i)
    \/ \E i \in 1..MaxRequests, ending \in Endings : RequestFinishes(i, ending)
    \/ \E i \in 1..MaxRequests : Settles(i)
    \/ Resume
    \/ Cancel

SpecServer ==
    /\ Constructed(1)
    /\ [][NextServer]_vars
    /\ WF_vars(\E i \in 1..MaxRequests, ending \in Endings : RequestFinishes(i, ending))
    /\ WF_vars(\E i \in 1..MaxRequests : Settles(i))
    /\ WF_vars(Resume)

\* one generateForNode whose batch streams while the user deletes nodes or
\* clears the document
NextDelete ==
    \/ ~initialized /\ init
    \/ \E x \in NodeIds(nodes), s \in GenSettings :
          gen.batches = <<>> /\ GenerateError(x, s) = "" /\ generateForNode(x, s)
    \/ \E id \in NodeIds(nodes) : gen.batches # <<>> /\ deleteNode(id)
    \/ gen.batches # <<>> /\ clearAll
    \/ StructureMicrotask
    \/ CallerResumes
    \/ /\ ReadLoopRuns
       /\ \/ \E b \in 1..Len(gen.batches) : \E id \in EventIds(b) :
                onToken(b, id, NextToken(b, id))
          \/ \E b \in 1..Len(gen.batches) : \E id \in EventIds(b) : onDone(b, id)
          \/ \E b \in 1..Len(gen.batches) : \E id \in EventIds(b), m \in ErrorMessages :
                onError(b, id, m)
          \/ \E b \in 1..Len(gen.batches) : \E m \in TransportOutcomes(b) : TransportEnds(b, m)
    \/ TurnEnded /\ AnimationFrame

SpecDelete == Session(2, SavedBranch) /\ [][NextDelete]_vars

\* one generateForNode whose transport names, in its events, the ids of the
\* requests, ids of other nodes and an id that names no node
StreamIds(b) == EventIds(b) \cup TargetIds

NextStray ==
    \/ ~initialized /\ init
    \/ \E x \in NodeIds(nodes), s \in GenSettings :
          gen.batches = <<>> /\ GenerateError(x, s) = "" /\ generateForNode(x, s)
    \/ StructureMicrotask
    \/ CallerResumes
    \/ /\ ReadLoopRuns
       /\ \/ \E b \in 1..Len(gen.batches) : \E id \in StreamIds(b) :
                onToken(b, id, IF id \in EventIds(b) THEN NextToken(b, id) ELSE "x")
          \/ \E b \in 1..Len(gen.batches) : \E id \in StreamIds(b) : onDone(b, id)
          \/ \E b \in 1..Len(gen.batches) : \E id \in StreamIds(b), m \in ErrorMessages :
                onError(b, id, m)
          \/ \E b \in 1..Len(gen.batches) : \E m \in TransportOutcomes(b) : TransportEnds(b, m)
    \/ TurnEnded /\ AnimationFrame

SpecStray == Session(1, SavedTree) /\ [][NextStray]_vars

\* the read loop of the transport client on a body of up to MaxLines lines,
\* handed out in chunks of any sizes
Bodies == UNION {[1..n -> BodyLines] : n \in 0..MaxLines}

NextDemux ==
    \/ transport.phase = "idle" /\ \E lines \in Bodies, open \in BOOLEAN : Fetch(lines, open)
    \/ \E n \in 1..(3 * MaxLines) : ReadChunk(n)
    \/ ReadEnd

SpecDemux == Constructed(1) /\ [][NextDemux]_vars

\* the debounce timer against a clock; a timeout that is due does fire, and
\* the clock does advance
NextDebounce ==
    \/ init
    \/ \E p \in TargetIds, a \in ChildArgs : addChild(p, a[1], a[2])
    \/ \E p \in TargetIds, a \in ChildArgs : addChildStreaming(p, a[1], a[2])
    \/ \E x \in TargetIds, t \in Texts : updateText(x, t)
    \/ \E x \in TargetIds, t \in Texts : updateTextSilent(x, t)
    \/ persist
    \/ Tick
    \/ PersistTimerDue
    \/ StructureMicrotask
    \/ QuotaChanges

SpecDebounce ==
    Init /\ [][NextDebounce]_vars /\ WF_vars(Tick) /\ WF_vars(PersistTimerDue)

\* texts a user leaves in the textarea of a node: some text, or none
EditTexts == {"cd", ""}

\* the store's operations with the user editing the text of nodes
NextEdit ==
    \/ init
    \/ \E p \in TargetIds, a \in ChildArgs : addChild(p, a[1], a[2])
    \/ \E p \in TargetIds, a \in ChildArgs : addChildStreaming(p, a[1], a[2])
    \/ \E x \in TargetIds : deleteNode(x)
    \/ \E x \in TargetIds, t \in EditTexts : updateText(x, t)
    \/ \E x \in TargetIds, t \in EditTexts : updateTextSilent(x, t)
    \/ clearAll
    \/ PersistTimerFires
    \/ StructureMicrotask

SpecEdit == Init /\ [][NextEdit]_vars

\* the user edits the texts of the new children while one generateForNode
\* streams, and the debounce timer fires after a delay of any length
NextLive ==
    \/ ~initialized /\ init
    \/ \E x \in NodeIds(nodes), s \in GenSettings :
          gen.batches = <<>> /\ GenerateError(x, s) = "" /\ generateForNode(x, s)
    \/ StructureMicrotask
    \/ CallerResumes
    \/ /\ ReadLoopRuns
       /\ \/ \E b \in 1..Len(gen.batches) : \E id \in EventIds(b) :
                onToken(b, id, NextToken(b, id))
          \/ \E b \in 1..Len(gen.batches) : \E id \in EventIds(b) : onDone(b, id)
          \/ \E b \in 1..Len(gen.batches) : \E id \in EventIds(b), m \in ErrorMessages :
                onError(b, id, m)
          \/ \E b \in 1..Len(gen.batches) : \E m \in TransportOutcomes(b) : TransportEnds(b, m)
    \/ /\ TurnEnded
       /\ \/ AnimationFrame
          \/ \E b \in 1..Len(gen.batches) : \E id \in EventIds(b), t \in EditTexts :
                updateText(id, t)
          \/ PersistTimerFires

SpecLive == Session(1, SavedTree) /\ [][NextLive]_vars

\* ================================================================ properties
Root(ns) == {i \in 1..Len(ns) : ns[i].data.isRoot}

\* exactly one node is the root, and it alone has no parent
ExactlyOneRoot(ns) ==
    /\ Cardinality(Root(ns)) = 1
    /\ \A i \in 1..Len(ns) : (ns[i].data.parentId = Null) <=> ns[i].data.isRoot

NoDuplicates(s) == \A i, j \in 1..Len(s) : s[i] = s[j] => i = j

\* the ids of the nodes whose parentId is id
ChildrenByParentId(ns, id) == {ns[j].id : j \in {k \in 1..Len(ns) : ns[k].data.parentId = id}}

\* childIds is the derived truth: for every node, without duplicates
ChildIdsMatch(ns) ==
    \A i \in 1..Len(ns) :
        /\ NoDuplicates(ns[i].data.childIds)
        /\ SeqRange(ns[i].data.childIds) = ChildrenByParentId(ns, ns[i].id)

\* one edge parent -> child for every node with a parent, and no other edge
EdgesMatch(ns, es) ==
    /\ NoDuplicates(es)
    /\ {<<es[i].source, es[i].target>> : i \in 1..Len(es)}
         = {<<ns[j].data.parentId, ns[j].id>> : j \in {k \in 1..Len(ns) : ns[k].data.parentId # Null}}
    /\ \A i \in 1..Len(es) : es[i].id = "e-" \o es[i].source \o "-" \o es[i].target

RECURSIVE ReachSet(_, _, _)
ReachSet(ns, frontier, seen) ==
    IF frontier \subseteq seen THEN seen
    ELSE LET new == frontier \ seen
             below == UNION {SeqRange(ns[i].data.childIds) : i \in {k \in 1..Len(ns) : ns[k].id \in new}}
         IN ReachSet(ns, below, seen \cup new)

\* every node is reached from the root by following childIds
AllReachable(ns) == NodeIds(ns) \subseteq ReachSet(ns, {ns[i].id : i \in Root(ns)}, {})

\* ---------------------------------------------------------------- C1
\* C1: once init() has run, in every document the store builds by addChild,
\* addChildStreaming, deleteNode, clearAll and the patches, exactly one node
\* has isRoot = true, that node's parentId is null, and no other node's is.
C1_ExactlyOneRoot == initialized => ExactlyOneRoot(nodes)

\* a document that a delete has just cut and that still has a child in it
C1_Witness ==
    /\ initialized
    /\ Len(nodes) >= 2
    /\ lastOp.op = "deleteNode" /\ lastOp.removed >= 1

\* ---------------------------------------------------------------- C2
\* C2: in every such document childIds, parentId and the edges agree: each
\* node's childIds is, without duplicates, the set of nodes whose parentId
\* names it; the edges are exactly one per parent-child pair; every node is
\* reachable from the root through childIds.
C2_RelationsAgree ==
    initialized =>
        /\ ChildIdsMatch(nodes)
        /\ EdgesMatch(nodes, edges)
        /\ AllReachable(nodes)

\* a delete took a child with its own child away from a root that keeps none
C2_Witness ==
    /\ initialized
    /\ lastOp.op = "deleteNode" /\ lastOp.removed = 2
    /\ Len(nodes) = 1 /\ nodes[1].data.childIds = <<>> /\ edges = <<>>

\* ---------------------------------------------------------------- C3
RECURSIVE HasAncestor(_, _, _, _)
\* x is met on the parentId chain of id, within k links
HasAncestor(ns, id, x, k) ==
    /\ k > 0
    /\ FindIndex(ns, id) # 0
    /\ LET above == ns[FindIndex(ns, id)].data.parentId
       IN above # Null /\ (above = x \/ HasAncestor(ns, above, x, k - 1))

DescendantsByParentId(ns, x) == {id \in NodeIds(ns) : HasAncestor(ns, id, x, Len(ns))}

IdsOf(ns) == [i \in 1..Len(ns) |-> ns[i].id]

\* what deleteNode(x) owes, stated on the state before (unprimed) and after (primed)
DeletePost(x) ==
    LET gone == {x} \cup DescendantsByParentId(nodes, x)
        left == NodeIds(nodes) \ gone
        above == nodes[FindIndex(nodes, x)].data.parentId
    IN /\ NodeIds(nodes') = left
       /\ IdsOf(nodes') = FilterIn(IdsOf(nodes), left)
       /\ \A i \in 1..Len(nodes') :
            LET before == nodes[FindIndex(nodes, nodes'[i].id)]
            IN IF nodes'[i].id = above
               THEN /\ nodes'[i].data.childIds
                         = FilterIn(before.data.childIds, SeqRange(before.data.childIds) \ {x})
                    /\ [nodes'[i] EXCEPT !.data.childIds = <<>>]
                         = [before EXCEPT !.data.childIds = <<>>]
               ELSE nodes'[i] = before
       /\ edges' = FilterIn(edges, {e \in SeqRange(edges) : e.source \notin gone /\ e.target \notin gone})
       /\ AllReachable(nodes')
       /\ ExactlyOneRoot(nodes')

\* C3: deleteNode(x) on an existing non-root node removes exactly x and its
\* transitive descendants, takes x out of its parent's childIds keeping the
\* order of the siblings, removes exactly the edges that touch a removed
\* node, and leaves every remaining node reachable from the root.
C3_DeleteCascade ==
    [][\A x \in NodeIds(nodes) :
          (deleteNode(x) /\ ~DeleteRefused(nodes, x)) => DeletePost(x)]_vars

\* a delete removed a node together with a descendant and left another branch
C3_Witness ==
    /\ lastOp.op = "deleteNode" /\ lastOp.removed >= 2
    /\ Len(nodes) >= 2

\* ---------------------------------------------------------------- C4
\* the invariants of the data model
DataModelInvariants(ns, es) ==
    /\ ExactlyOneRoot(ns)
    /\ ChildIdsMatch(ns)
    /\ EdgesMatch(ns, es)
    /\ AllReachable(ns)
    /\ NoDuplicates(IdsOf(ns))

\* C4: whenever importGraph(json) succeeds, the resulting document satisfies
\* the invariants of the data model: one root, which alone has no parent;
\* childIds equal to the nodes naming the parent; edges equal to the
\* parent-child pairs; every node reachable from the root, without cycles.
C4_ImportValidates ==
    (lastOp.op = "importGraph" /\ lastOp.ret = "ok") => DataModelInvariants(nodes, edges)

\* ---------------------------------------------------------------- C5
\* the inputs the claim lists, read off the input itself
ListedAsInvalid(json) ==
    \/ json.kind # "object"
    \/ ~json.hasNodes \/ ~json.hasEdges
    \/ json.nodes = <<>>
    \/ \A i \in 1..Len(json.nodes) : ~json.nodes[i].data.isRoot
    \/ \E i \in 1..Len(json.nodes) :
          \/ json.nodes[i].id = Absent
          \/ json.nodes[i].data = NoData
          \/ json.nodes[i].data.text \in {Absent, NotAString}

\* C5: importGraph of a string that is not JSON, lacks the nodes or edges
\* array, has no nodes, has no root, or has a node without id, data or string
\* text, throws and leaves nodes, edges, the indices, the structural version
\* and its pending increment, the debounce timer and the stored blob as they were.
C5_ImportAllOrNothing ==
    [][lastOp'.op = "importGraph" =>
          \A j \in ImportInputs :
              (ListedAsInvalid(j) /\ importGraph("input", j)) =>
                  /\ lastOp'.ret \notin {"ok", ""}
                  /\ UNCHANGED <<nodes, edges, nodeDataMap, nodeIndexMap, structureVersion,
                                 structureScheduled, persistTimer, timeouts, storage>>]_vars

\* an import was refused over a document of two nodes, with an increment and
\* a timer pending and a blob stored
C5_Witness ==
    /\ lastOp.op = "importGraph" /\ lastOp.ret = "Invalid graph: malformed node data"
    /\ Len(nodes) >= 2
    /\ structureScheduled /\ persistTimer
    /\ storage # <<>>

\* ---------------------------------------------------------------- C6
\* the fields the round trip keeps, node by node, and the edges
SameDocument(before, ns, es) ==
    /\ Len(ns) = Len(before.nodes)
    /\ \A i \in 1..Len(ns) :
          /\ ns[i].id = before.nodes[i].id
          /\ ns[i].data.id = before.nodes[i].data.id
          /\ ns[i].data.text = before.nodes[i].data.text
          /\ ns[i].data.parentId = before.nodes[i].data.parentId
          /\ ns[i].data.childIds = before.nodes[i].data.childIds
          /\ ns[i].data.isRoot = before.nodes[i].data.isRoot
          /\ ns[i].data.generatedTextStart = before.nodes[i].data.generatedTextStart
          /\ ~ns[i].data.isGenerating
    /\ es = before.edges

\* C6: importGraph(exportGraph()), whatever was done in between, succeeds and
\* yields the exported document again: the same nodes in the same order with
\* the same text, parentId, childIds and generatedTextStart, the same edges,
\* and isGenerating false everywhere.
C6_ExportImportRoundTrip ==
    (lastOp.op = "importGraph" /\ lastOp.arg = "exported") =>
        /\ lastOp.ret = "ok"
        /\ SameDocument(exportedFrom[1], nodes, edges)

\* the exported document had a child that was generating and a node whose
\* error was set to undefined, and the import replaced a document that had
\* been cut down to its root in between
C6_Witness ==
    /\ lastOp.op = "importGraph" /\ lastOp.arg = "exported" /\ lastOp.ret = "ok"
    /\ Len(nodes) >= 2 /\ lastOp.removed = 1
    /\ \E i \in 1..Len(exportedFrom[1].nodes) : exportedFrom[1].nodes[i].data.isGenerating
    /\ \E i \in 1..Len(exportedFrom[1].nodes) : exportedFrom[1].nodes[i].data.error = Undefined

\* ---------------------------------------------------------------- C7
\* C7: after init() and after a successful importGraph no node has
\* isGenerating = true, whatever the snapshot held.
C7_GeneratingClearedOnLoad ==
    (lastOp.op = "init" \/ (lastOp.op = "importGraph" /\ lastOp.ret = "ok")) =>
        \A i \in 1..Len(nodes) : ~nodes[i].data.isGenerating

\* init() after a reload loaded a blob that was written while a child was generating
C7_Witness ==
    /\ lastOp.op = "init" /\ lastOp.arg = "loaded"
    /\ reloads >= 1
    /\ \E i \in 1..Len(storage[1].nodes) : storage[1].nodes[i].data.isGenerating

\* ---------------------------------------------------------------- C8
\* C8: init() restores the stored nodes and edges when the blob has a
\* non-empty node list and otherwise makes a document of one root with empty
\* text and no edges; either way the document ends with exactly one root.
C8_InitRestoresOneRoot ==
    lastOp.op = "init" =>
        /\ IF storage # <<>> /\ storage[1].nodes # <<>>
           THEN SameDocument(storage[1], nodes, edges)
           ELSE /\ Len(nodes) = 1 /\ edges = <<>>
                /\ nodes[1].data.text = "" /\ nodes[1].data.isRoot
        /\ ExactlyOneRoot(nodes)

\* ---------------------------------------------------------------- C9
\* C9: when addChild, addChildStreaming, deleteNode, importGraph or clearAll
\* returns after changing the document, with a localStorage that takes the
\* write, the stored blob equals the document in memory and no debounce timer
\* is pending.
C9_StructuralPersistImmediate ==
    [][( /\ ~quotaExceeded
         /\ <<nodes', edges', lastOp'>> # <<nodes, edges, lastOp>>
         /\ \/ lastOp'.op \in {"addChild", "addChildStreaming"} /\ lastOp'.ret # ""
            \/ lastOp'.op = "deleteNode" /\ lastOp'.ret = "deleted"
            \/ lastOp'.op = "importGraph" /\ lastOp'.ret = "ok"
            \/ lastOp'.op = "clearAll" ) =>
          /\ storage' = Stored(nodes', edges')
          /\ ~persistTimer']_vars

\* ---------------------------------------------------------------- C10
\* C10: structural mutations leave structureVersion as it is; the version
\* changes only when the scheduler runs the queued microtask, which happens
\* after one mutation or more, and then it grows by exactly one; an increment
\* is pending exactly while mutations of the turn are not yet counted.
C10_VersionCoalesced ==
    [][/\ structureVersion' >= structureVersion
       /\ structureVersion' # structureVersion =>
            /\ structureVersion' = structureVersion + 1
            /\ turnMutations >= 1 /\ turnMutations' = 0
            /\ UNCHANGED <<nodes, edges, lastOp>>
       /\ turnMutations' # 0 => structureVersion' = structureVersion
       /\ structureScheduled' <=> turnMutations' >= 1]_vars

\* three mutations or more were made in one turn and became one increment
C10_Witness ==
    /\ structureVersion = 1 /\ ~structureScheduled
    /\ Len(nodes) >= 3

\* ---------------------------------------------------------------- C11
\* C11: clearAll() returns with structureVersion strictly greater than it was
\* before the call, and so does a successful importGraph() that follows; the
\* increase is there when the call returns, before the scheduler runs anything.
C11_VersionGrowsOnReturn ==
    [][(clearAll \/ (importExported /\ lastOp'.ret = "ok"))
          => structureVersion' > structureVersion]_vars

\* ---------------------------------------------------------------- C12
\* a call that asks for the document to be persisted after the delay
PersistRequest == (\E x \in TargetIds, t \in Texts : updateText(x, t)) \/ persist

\* C12: at most one debounce timer is pending; every persist request restarts
\* the full delay and writes nothing; a write that no operation made is made
\* by the one timer when its delay has run out, it leaves no timer behind and
\* stores the document as it is then; the timer that fires stores the document
\* whenever localStorage takes the write; and a pending timer leads to a state
\* in which no timer is pending and the stored blob is the document, or
\* localStorage is full.
C12_Debounced ==
    /\ [](Len(timeouts) <= 1 /\ (persistTimer <=> timeouts # <<>>))
    /\ [][PersistRequest => (timeouts' = <<PersistDelay>> /\ storage' = storage)]_vars
    /\ [][(storage' # storage /\ lastOp' = lastOp) =>
             /\ timeouts = <<0>> /\ timeouts' = <<>> /\ ~persistTimer'
             /\ storage' = Stored(nodes, edges)]_vars
    /\ [][(timeouts = <<0>> /\ timeouts' = <<>> /\ lastOp' = lastOp /\ ~quotaExceeded) =>
             storage' = Stored(nodes, edges)]_vars
    /\ persistTimer ~> (~persistTimer /\ (storage = Stored(nodes, edges) \/ quotaExceeded))

\* updateText restarted a timer that addChildStreaming had started and that
\* had not fired: the child is in the document and nothing is stored yet
C12_Witness ==
    /\ lastOp.op = "updateText"
    /\ timeouts = <<PersistDelay>>
    /\ storage = <<>>
    /\ \E i \in 1..Len(nodes) : nodes[i].data.isGenerating /\ nodes[i].data.text = "cd"

\* ---------------------------------------------------------------- C13
\* the nodes after the step are the nodes before it, in their order, except
\* that the node of id x has the value in the field (position, or a field of
\* its data)
OnlyNodeChanged(x, field, value) ==
    /\ Len(nodes') = Len(nodes)
    /\ \A i \in 1..Len(nodes) :
          nodes'[i] = IF nodes[i].id # x THEN nodes[i]
                      ELSE IF field = "position" THEN [nodes[i] EXCEPT !.position = value]
                      ELSE [nodes[i] EXCEPT !.data[field] = value]

NotStructural == UNCHANGED <<edges, structureVersion, structureScheduled, turnMutations>>

NotPersisted == UNCHANGED <<storage, persistTimer, timeouts>>

\* C13: updateText, updateTextSilent, setGenerating, setError and
\* updatePositionsSilent change the addressed field of the addressed node and
\* nothing else in the document, schedule no increment of the structural
\* version, and, updateText apart, neither write nor schedule a write.
C13_PatchesAreNotStructural ==
    [][\A x \in TargetIds :
          /\ \A t \in Texts :
                /\ updateText(x, t) =>
                      /\ OnlyNodeChanged(x, "text", t)
                      /\ NotStructural /\ storage' = storage
                /\ updateTextSilent(x, t) =>
                      /\ OnlyNodeChanged(x, "text", t)
                      /\ NotStructural /\ NotPersisted
          /\ \A g \in BOOLEAN :
                setGenerating(x, g) =>
                    /\ OnlyNodeChanged(x, "isGenerating", g)
                    /\ NotStructural /\ NotPersisted
          /\ \A e \in ErrorArgs :
                setError(x, e) =>
                    /\ OnlyNodeChanged(x, "error", e)
                    /\ NotStructural /\ NotPersisted
          /\ updatePositionsSilent({x}) =>
                /\ OnlyNodeChanged(x, "position", Moved)
                /\ NotStructural /\ NotPersisted]_vars

\* one of two nodes was moved while an increment and a timer were pending
C13_Witness ==
    /\ lastOp.op = "updatePositionsSilent"
    /\ Len(nodes) >= 2
    /\ \E i, j \in 1..Len(nodes) : nodes[i].position = Moved /\ nodes[j].position = Origin
    /\ structureScheduled /\ persistTimer

\* ---------------------------------------------------------------- C14
\* nothing of the store changed
StoreUnchanged ==
    UNCHANGED <<nodes, edges, nodeDataMap, nodeIndexMap, storage, persistTimer, timeouts,
                structureVersion, structureScheduled, turnMutations>>

\* C14: addChild and addChildStreaming with a parentId that names no node
\* return the empty id, deleteNode of the root or of a missing id does
\* nothing, and in these cases nodes, edges, the indices and the stored blob
\* stay as they were and no increment of the structural version is scheduled.
C14_InvalidTargetIsNoOp ==
    [][\A x \in TargetIds :
          /\ \A a \in ChildArgs :
                (x \notin NodeIds(nodes) /\ (addChild(x, a[1], a[2]) \/ addChildStreaming(x, a[1], a[2])))
                    => (lastOp'.ret = "" /\ StoreUnchanged)
          /\ ((x \notin NodeIds(nodes) \/ x \in {nodes[i].id : i \in Root(nodes)}) /\ deleteNode(x))
                => StoreUnchanged]_vars

\* deleteNode was called on a root that has a child
C14_Witness ==
    /\ lastOp.op = "deleteNode" /\ lastOp.ret = ""
    /\ lastOp.arg \in {nodes[i].id : i \in Root(nodes)}
    /\ Len(nodes) >= 2

\* ---------------------------------------------------------------- C15
\* what a successful addChild / addChildStreaming owes, the returned id being
\* lastOp'.ret
AddPost(p, text, g, generating) ==
    LET id == lastOp'.ret
    IN /\ id # "" /\ id \notin NodeIds(nodes)
       /\ Len(nodes') = Len(nodes) + 1
       /\ nodes'[Len(nodes')] =
              [id |-> id, position |-> Origin,
               data |-> [id |-> id, text |-> text, parentId |-> p, childIds |-> <<>>,
                         isRoot |-> FALSE, isGenerating |-> generating,
                         generatedTextStart |-> g, error |-> Absent]]
       /\ \A i \in 1..Len(nodes) :
              nodes'[i] = IF nodes[i].id = p
                          THEN [nodes[i] EXCEPT !.data.childIds = nodes[i].data.childIds \o <<id>>]
                          ELSE nodes[i]
       /\ edges' = edges \o <<[id |-> "e-" \o p \o "-" \o id, source |-> p, target |-> id]>>

\* C15: addChild(p, text, g) on an existing parent returns an id that was not
\* in the document and adds exactly one node with that id, the text, g,
\* parentId = p, no children, isRoot = false and isGenerating = false, as the
\* last entry of p's childIds with the earlier entries in their order;
\* addChildStreaming does the same with isGenerating = true.
C15_AddChildPost ==
    [][\A p \in NodeIds(nodes), a \in ChildArgs :
          /\ addChild(p, a[1], a[2]) => AddPost(p, a[1], a[2], FALSE)
          /\ addChildStreaming(p, a[1], a[2]) => AddPost(p, a[1], a[2], TRUE)]_vars

\* a child was added to a parent that had one already, and another was added
\* by the other operation
C15_Witness ==
    /\ lastOp.op = "addChildStreaming" /\ lastOp.ret # ""
    /\ \E i \in 1..Len(nodes) :
          /\ Len(nodes[i].data.childIds) = 2
          /\ nodes[i].data.childIds[2] = lastOp.ret
    /\ \E i \in 1..Len(nodes) : ~nodes[i].data.isRoot /\ ~nodes[i].data.isGenerating

\* ---------------------------------------------------------------- C16
\* C16: clearAll() replaces the document, whatever it was, by one node that
\* was not in it, with empty text, isRoot = true, parentId null, no children
\* and isGenerating = false, and by no edges.
C16_ClearAllPost ==
    [][clearAll =>
          /\ lastOp'.ret \notin NodeIds(nodes)
          /\ nodes' = <<[id |-> lastOp'.ret, position |-> Origin,
                         data |-> [id |-> lastOp'.ret, text |-> "", parentId |-> Null,
                                   childIds |-> <<>>, isRoot |-> TRUE, isGenerating |-> FALSE,
                                   generatedTextStart |-> 0, error |-> Absent]]>>
          /\ edges' = <<>>]_vars

\* clearAll replaced a document of three nodes with edges among them
C16_Witness ==
    /\ lastOp.op = "clearAll" /\ lastOp.removed >= 3
    /\ Len(nodes) = 1

\* ---------------------------------------------------------------- C17
\* C17: in every document, after every operation that creates a node or
\* changes its text, each node's generatedTextStart is at most the length of
\* its text.
C17_GeneratedStartWithinText ==
    \A i \in 1..Len(nodes) : nodes[i].data.generatedTextStart <= Len(nodes[i].data.text)

\* ---------------------------------------------------------------- C18
RECURSIVE Concat(_)
\* the tokens of a sequence, one after the other
Concat(tokens) == IF tokens = <<>> THEN "" ELSE Head(tokens) \o Concat(Tail(tokens))

\* what was received for an id is tokens only
OnlyTokens(log) == \A i \in 1..Len(log) : log[i] \in Tokens

\* what was received for an id is tokens and then one done event
TokensThenDone(log) ==
    /\ log # <<>> /\ log[Len(log)] = "done"
    /\ OnlyTokens(SubSeq(log, 1, Len(log) - 1))

NodeOf(id) == nodes[FindIndex(nodes, id)]

\* C18: generateForNode(source) with generations-per-node N and a transport
\* that streams tokens and then a done event for every id yields exactly N new
\* nodes, each a child of source whose generatedTextStart is the length of the
\* prompt (the text of source when it was called) and whose text is the prompt
\* followed by the tokens of its id; while
\* the tokens arrive the text is the prompt followed by the tokens of some
\* prefix of them; at the end the children and the source are not generating.
C18_GenerateYieldsChildren ==
    \A b \in 1..Len(gen.batches) :
        LET B == gen.batches[b]
            ids == SeqRange(B.requests)
        IN /\ \A id \in ids :
                 (B.streaming /\ id \in NodeIds(nodes) /\ OnlyTokens(B.received[id])) =>
                     \E k \in 0..Len(B.received[id]) :
                         NodeOf(id).data.text = B.prompts[id] \o Concat(SubSeq(B.received[id], 1, k))
           /\ ( /\ b = Len(gen.batches)
                /\ lastOp.op = "generateForNode" /\ lastOp.ret = "resolved"
                /\ B.outcome = Returned
                /\ B.source \in NodeIds(nodes)
                /\ \A id \in ids : TokensThenDone(B.received[id]) ) =>
                 /\ Len(B.requests) = B.count
                 /\ Cardinality(ids) = B.count
                 /\ ids \cap B.before = {}
                 /\ NodeIds(nodes) = B.before \cup ids
                 /\ Len(nodes) = Cardinality(B.before) + B.count
                 /\ ~NodeOf(B.source).data.isGenerating
                 /\ \A id \in ids :
                       LET d == NodeOf(id).data
                           log == B.received[id]
                       IN /\ d.parentId = B.source
                          /\ d.generatedTextStart = Len(B.prompts[id])
                          /\ d.text = B.prompts[id] \o Concat(SubSeq(log, 1, Len(log) - 1))
                          /\ ~d.isGenerating

\* two children were generated, one of them from a token, each ended by its
\* done event, the transport returned and generateForNode resolved
C18_Witness ==
    /\ lastOp.op = "generateForNode" /\ lastOp.ret = "resolved"
    /\ LET B == gen.batches[Len(gen.batches)]
       IN /\ B.count = 2
          /\ B.outcome = Returned
          /\ \A id \in SeqRange(B.requests) : TokensThenDone(B.received[id])
          /\ \E id \in SeqRange(B.requests) : Len(B.received[id]) = 2
          /\ B.source \in NodeIds(nodes)

\* ---------------------------------------------------------------- C19
\* the local preconditions of generateForNode do not hold
PreconditionFails(nodeId, settings) ==
    \/ getPrompt(nodeDataMap, nodeId) \in Blank
    \/ settings.apiKey = "" /\ settings.apiBaseUrl = DefaultUrl

\* C19: when the text of the node is empty or only whitespace, or no API key
\* is configured for the default endpoint, generateForNode rejects with an
\* error, calls no transport and changes nothing of the document: no
\* placeholder child, the isGenerating and error fields of the source as they
\* were, activeRequests as it was.
C19_FailsFast ==
    [][\A x \in TargetIds, s \in GenSettings :
          (PreconditionFails(x, s) /\ generateForNode(x, s)) =>
              /\ lastOp'.op = "generateForNode"
              /\ lastOp'.ret \in {"API key is required", "Node has no text to generate from"}
              /\ gen'.activeRequests = gen.activeRequests
              /\ gen'.batches = gen.batches
              /\ gen'.rafQueue = gen.rafQueue
              /\ UNCHANGED <<nodes, edges, nodeDataMap, nodeIndexMap, storage,
                             persistTimer, timeouts, structureVersion, structureScheduled>>]_vars

\* generateForNode was refused on a node whose text is one blank, with a key
\* configured
C19_Witness ==
    /\ lastOp.op = "generateForNode"
    /\ lastOp.ret = "Node has no text to generate from"
    /\ getPrompt(nodeDataMap, lastOp.arg) = " "

\* ---------------------------------------------------------------- C20
\* what an event may write of a node: its text, error and isGenerating
Written(ns, id) ==
    LET d == ns[FindIndex(ns, id)].data IN <<d.text, d.error, d.isGenerating>>

\* C20: once a request id is marked done or error, a later token, done or
\* error event for that id is ignored: neither the handler of the event nor the
\* animation frame it requested changes the text, error or isGenerating of the
\* node, and the handler leaves activeRequests as it is.
C20_TerminalIsFinal ==
    [][\A b \in 1..Len(gen.batches) : \A id \in gen.batches[b].completed :
          (id \in NodeIds(nodes) /\ id \in NodeIds(nodes')) =>
              /\ ( \/ \E t \in Tokens : onToken(b, id, t)
                   \/ onDone(b, id)
                   \/ \E m \in ErrorMessages : onError(b, id, m) ) =>
                     /\ Written(nodes', id) = Written(nodes, id)
                     /\ gen'.activeRequests = gen.activeRequests
              /\ AnimationFrame => Written(nodes', id) = Written(nodes, id)]_vars

\* ---------------------------------------------------------------- C21
\* no token is among the events
NoTokens(log) == \A i \in 1..Len(log) : log[i] \notin Tokens

\* the step is an error event for id of batch b, or the end of the transport of
\* batch b, returned or thrown
FailureStep(b, id) ==
    \/ \E m \in ErrorMessages : onError(b, id, m)
    \/ \E m \in {Returned} \cup ThrownMessages : TransportEnds(b, m)

\* C21: a request id that fails before any of its tokens was received (by an
\* error event, a thrown transport failure, or the end of the stream) leaves
\* its node with the prompt as text, an error that is not empty, and not
\* generating.
C21_FailureBeforeToken ==
    [][\A b \in 1..Len(gen.batches) : \A id \in EventIds(b) :
          ( /\ id \notin gen.batches[b].completed
            /\ NoTokens(gen.batches[b].received[id])
            /\ id \in NodeIds(nodes)
            /\ FailureStep(b, id) ) =>
              LET d == nodes'[FindIndex(nodes', id)].data
              IN /\ d.text = gen.batches[b].prompts[id]
                 /\ d.error \notin {"", Absent, Undefined}
                 /\ ~d.isGenerating
                 /\ id \in gen'.batches[b].completed]_vars

\* ---------------------------------------------------------------- C22
\* the prompt of id followed by the tokens batch b has received for it
Streamed(b, id) ==
    gen.batches[b].prompts[id]
        \o Concat(FilterIn(gen.batches[b].received[id], Tokens))

\* C22: a request id that fails after at least one of its tokens was received
\* leaves its node with the prompt, the tokens received before the failure and
\* then an error marker as text (so a text longer than prompt and tokens), and
\* with the error message in the error field.
C22_FailureAfterTokenMarked ==
    [][\A b \in 1..Len(gen.batches) : \A id \in EventIds(b) :
          ( /\ id \notin gen.batches[b].completed
            /\ ~NoTokens(gen.batches[b].received[id])
            /\ id \in NodeIds(nodes)
            /\ FailureStep(b, id) ) =>
              LET d == nodes'[FindIndex(nodes', id)].data
              IN /\ Len(d.text) > Len(Streamed(b, id))
                 /\ d.error \notin {"", Absent, Undefined}]_vars

\* ---------------------------------------------------------------- C23
\* C23: when the call of the completion API fails for every request of a
\* generateForNode call, the N placeholder children are kept (the document has
\* the nodes it had and exactly the N children), and each of them carries the
\* error in its error field and a marked error string within its text (so a
\* text longer than the prompt).
C23_FailedPlaceholdersMarked ==
    \A b \in 1..Len(gen.batches) :
        LET B == gen.batches[b]
            ids == SeqRange(B.requests)
        IN ( /\ b = Len(gen.batches)
             /\ lastOp.op = "transportEnds" /\ lastOp.ret \in ThrownMessages
             /\ B.source \in NodeIds(nodes)
             /\ \A id \in ids : B.received[id] = <<>> ) =>
               /\ Cardinality(ids) = B.count
               /\ NodeIds(nodes) = B.before \cup ids
               /\ \A id \in ids :
                     /\ NodeOf(id).data.parentId = B.source
                     /\ NodeOf(id).data.error = lastOp.ret
                     /\ Len(NodeOf(id).data.text) > Len(B.prompts[id])

\* ---------------------------------------------------------------- C24
\* what batch b holds for id: its buffer, whether a flush is scheduled for it,
\* whether it is terminal
Held(g, b, id) ==
    <<g.batches[b].buffers[id], id \in g.batches[b].rafScheduled, id \in g.batches[b].completed>>

\* C24: an error event for one request id changes the node of that id and what
\* the batch holds for that id, and nothing else: every other node is as it
\* was, and for every sibling id the buffer, the scheduled flush and the
\* terminal state are as they were, the transport goes on; a sibling that then
\* gets its tokens and its done event ends with the prompt and all its tokens
\* as text, without error, not generating.
C24_FailuresIsolated ==
    /\ [][\A b \in 1..Len(gen.batches) : \A id \in EventIds(b) :
            (\E m \in ErrorMessages : onError(b, id, m)) =>
                /\ Len(nodes') = Len(nodes)
                /\ \A i \in 1..Len(nodes) : nodes[i].id # id => nodes'[i] = nodes[i]
                /\ \A other \in EventIds(b) \ {id} : Held(gen', b, other) = Held(gen, b, other)
                /\ gen'.batches[b].streaming
                /\ gen'.rafQueue = gen.rafQueue]_vars
    /\ [](\A b \in 1..Len(gen.batches) : \A id \in EventIds(b) :
            ( /\ TokensThenDone(gen.batches[b].received[id])
              /\ \E other \in EventIds(b) \ {id} :
                    /\ gen.batches[b].received[other] # <<>>
                    /\ gen.batches[b].received[other][1] = "error" ) =>
                /\ id \in gen.batches[b].completed
                /\ gen.batches[b].final[id].text = Streamed(b, id)
                /\ gen.batches[b].final[id].error = Absent
                /\ ~gen.batches[b].final[id].isGenerating)

\* an error event came for an id after its first token, while its sibling had
\* a token in its buffer and a flush scheduled, and the sibling is still
\* generating
C24_Witness ==
    /\ lastOp.op = "onError"
    /\ \E b \in 1..Len(gen.batches) :
          /\ gen.batches[b].received[lastOp.arg] = <<"x", "error">>
          /\ \E other \in EventIds(b) \ {lastOp.arg} :
                /\ gen.batches[b].received[other] = <<"x">>
                /\ other \in gen.batches[b].rafScheduled
                /\ other \notin gen.batches[b].completed
                /\ NodeOf(other).data.isGenerating

\* ---------------------------------------------------------------- C25
\* the message an id gets that is not terminal when the transport ends
ForcedMessage(thrown) == IF thrown = Returned THEN StreamEnded ELSE thrown

\* C25: when the transport call of a batch returns or throws, every request id
\* that is not terminal becomes terminal with an error (the message thrown, or
\* 'Stream ended without response'), keeps the prompt and the tokens it had
\* received as text, and stops generating; an id that is already terminal is
\* left as it is; so no placeholder child of the batch is generating when the
\* operation resolves.
C25_NoNodeLeftGenerating ==
    [][\A b \in 1..Len(gen.batches) : \A m \in {Returned} \cup ThrownMessages :
          TransportEnds(b, m) =>
              /\ ~gen'.batches[b].streaming
              /\ \A id \in EventIds(b) :
                    /\ id \in gen'.batches[b].completed
                    /\ id \in NodeIds(nodes) =>
                          /\ ~nodes'[FindIndex(nodes', id)].data.isGenerating
                          /\ IF id \in gen.batches[b].completed
                             THEN /\ nodes'[FindIndex(nodes', id)] = nodes[FindIndex(nodes, id)]
                                  /\ gen'.batches[b].buffers[id] = gen.batches[b].buffers[id]
                             ELSE Written(nodes', id) = <<Streamed(b, id), ForcedMessage(m), FALSE>>]_vars

\* the stream ended after the done event of one id, while the other id had
\* received a token only: that one got the stream-end error and kept its token
C25_Witness ==
    /\ lastOp.op = "transportEnds" /\ lastOp.ret = Returned
    /\ LET B == gen.batches[Len(gen.batches)]
       IN \E id, other \in EventIds(Len(gen.batches)) :
             /\ B.received[id] = <<"done">>
             /\ NodeOf(id).data.error = Absent
             /\ B.received[other] = <<"x">>
             /\ NodeOf(other).data.error = StreamEnded
             /\ NodeOf(other).data.text = "cdx"
             /\ ~NodeOf(other).data.isGenerating

\* ---------------------------------------------------------------- C26
\* the data of the node of id
DataOf(id) == nodes[FindIndex(nodes, id)].data

\* C26: a generation operation running on its own marks its sources for the
\* time of its batch: after the call every source (the node of generateForNode,
\* every selected leaf of generateAllLeaves) is generating and has its error
\* cleared; as long as a request id of the batch is not terminal every source
\* is generating; once the batch has resolved no source is generating, whether
\* the ids ended done or in error.
C26_SourcesMarkedForTheBatch ==
    \A b \in 1..Len(gen.batches) :
        LET B == gen.batches[b]
        IN \A src \in SeqRange(B.sources) :
              /\ src \in NodeIds(nodes)
              /\ (/\ lastOp.op \in {"generateForNode", "generateAllLeaves"}
                  /\ lastOp.ret \in {"streaming", "empty"}) =>
                    /\ DataOf(src).isGenerating
                    /\ DataOf(src).error = Undefined
                    /\ B.completed = {}
              /\ (\E id \in SeqRange(B.requests) : id \notin B.completed) =>
                    /\ B.streaming
                    /\ DataOf(src).isGenerating
              /\ ~B.streaming => SeqRange(B.requests) \subseteq B.completed
              /\ Resolved(gen, b) => ~DataOf(src).isGenerating

\* generateAllLeaves on two leaves has resolved: one id ended done, another in
\* error, and neither leaf is generating
C26_Witness ==
    /\ lastOp.op = "generateAllLeaves" /\ lastOp.ret = "resolved"
    /\ \E b \in 1..Len(gen.batches) :
          LET B == gen.batches[b]
          IN /\ B.bulk /\ Len(B.sources) = 2 /\ Resolved(gen, b)
             /\ \E id, other \in SeqRange(B.requests) :
                   /\ B.received[id] = <<"done">>
                   /\ B.received[other] = <<"error">>
                   /\ B.parents[id] # B.parents[other]
             /\ \A src \in SeqRange(B.sources) : ~DataOf(src).isGenerating

\* ---------------------------------------------------------------- C27
\* the ids of the nodes that have no children and a text that is not blank
LeafCandidates == {nodes[i].id : i \in {j \in 1..Len(nodes) :
                      nodes[j].data.childIds = <<>> /\ nodes[j].data.text \notin Blank}}

\* the nodes after the step whose parent is p and that were not there before
NewChildren(p) ==
    {i \in 1..Len(nodes') : nodes'[i].id \notin NodeIds(nodes) /\ nodes'[i].data.parentId = p}

\* the whole number k is the number x
IsNumber(k, x) == x.floor = x.ceil /\ k = x.floor

\* the whole number k is min(c, max), for a whole c
IsMin(k, c, max) == IF c <= max.floor THEN k = c ELSE IsNumber(k, max)

\* k times the number x, for a whole k that is not negative
Times(k, x) == [floor |-> k * x.floor, ceil |-> k * x.ceil]

\* with any of the settings, every subset of the candidates that has
\* min(number of candidates, maxLeafGenerations) elements can be the selection
\* of generateAllLeaves
EverySubsetPossible ==
    \A s \in LeafSettings :
        LET candidates == LeafCandidates
            selected == {SeqRange(leaves) : leaves \in Selections(nodes, s)}
        IN \A T \in SUBSET candidates :
              IsMin(Cardinality(T), Cardinality(candidates), s.maxLeafGenerations) =>
                  T \in selected

\* C27: generateAllLeaves selects only nodes without children and with a text
\* that is not blank; it selects min(number of these, maxLeafGenerations) of
\* them, and every subset of that size can be the selection; every selected
\* leaf gets exactly numGenerations placeholder children, each with the text
\* of the leaf; no other node gets a child; without a candidate nothing changes.
C27_LeavesSelected ==
    [][(lastOp'.op = "generateAllLeaves" /\ gen' # gen) =>
        /\ EverySubsetPossible
        /\ \A s \in LeafSettings : \A leaves \in Selections(nodes, s) :
            generateAllLeaves(s, leaves) =>
                /\ SeqRange(leaves) \subseteq LeafCandidates
                /\ IsMin(Len(leaves), Cardinality(LeafCandidates), s.maxLeafGenerations)
                /\ Cardinality(SeqRange(leaves)) = Len(leaves)
                /\ IsNumber(Len(nodes') - Len(nodes), Times(Len(leaves), s.numGenerations))
                /\ IsNumber(Len(edges') - Len(edges), Times(Len(leaves), s.numGenerations))
                /\ \A i \in 1..Len(nodes) :
                      LET p == nodes[i].id
                      IN IF p \in SeqRange(leaves)
                         THEN /\ IsNumber(Cardinality(NewChildren(p)), s.numGenerations)
                              /\ IsNumber(Len(nodes'[i].data.childIds), s.numGenerations)
                              /\ SeqRange(nodes'[i].data.childIds) =
                                     {nodes'[c].id : c \in NewChildren(p)}
                              /\ \A c \in NewChildren(p) :
                                    /\ nodes'[c].data.text = nodes[i].data.text
                                    /\ nodes'[c].data.generatedTextStart = Len(nodes[i].data.text)
                                    /\ nodes'[c].data.isGenerating
                         ELSE /\ nodes'[i] = nodes[i]
                              /\ NewChildren(p) = {}
                /\ LeafCandidates = {} => UNCHANGED <<nodes, edges, nodeDataMap, storage, timeouts>>
                                          /\ gen'.activeRequests = gen.activeRequests
                                          /\ gen'.batches = gen.batches]_vars

\* C28: the batch endpoint never has more than maxParallel upstream requests in
\* flight; request k beyond the cap is started only when at least
\* k - maxParallel requests have finished, from a state with a free slot; and
\* every request of the batch is eventually started, as long as the client
\* does not cancel the response
Finished == DOMAIN server.results

C28_ConcurrencyCapped ==
    /\ [](server.phase # "idle" => Cardinality(server.inFlight) <= server.maxParallel)
    /\ [][\A k \in server'.inFlight \ server.inFlight :
            k > server'.maxParallel =>
                /\ Cardinality(server.inFlight) < server.maxParallel
                /\ Cardinality(Finished) >= k - server.maxParallel]_vars
    /\ [](server.phase # "idle" => <>(server.next > server.total \/ server.cancelled))

\* the third of three requests was started when the first had ended, and runs
\* together with the second, at the cap of two
C28_Witness ==
    /\ server.phase = "racing"
    /\ server.maxParallel = 2
    /\ server.total = 3
    /\ server.next = 4
    /\ Cardinality(server.inFlight) = 2
    /\ Cardinality(Finished) = 1

\* ---------------------------------------------------------------- C29
\* the tokens batch b received for id, in the order of their arrival
TokensOf(b, id) == FilterIn(gen.batches[b].received[id], Tokens)

\* C29: for every request id the buffer is the prompt followed by the tokens
\* received so far for that id, in the order of their arrival, whatever was
\* received for other ids in between; the text of its node is the prompt
\* followed by the first n of these tokens, for some n; and the done event that
\* ends the id leaves the node with the whole buffer as text.
C29_TokensInOrder ==
    /\ [](\A b \in 1..Len(gen.batches) : \A id \in EventIds(b) :
            /\ gen.batches[b].buffers[id] = Streamed(b, id)
            /\ id \in NodeIds(nodes) =>
                  \E n \in 0..Len(TokensOf(b, id)) :
                      NodeOf(id).data.text
                          = gen.batches[b].prompts[id] \o Concat(SubSeq(TokensOf(b, id), 1, n)))
    /\ [][lastOp'.op = "onDone" =>
            \A b \in 1..Len(gen.batches) : \A id \in EventIds(b) :
                ( /\ id \notin gen.batches[b].completed
                  /\ id \in NodeIds(nodes)
                  /\ onDone(b, id) ) =>
                    /\ gen'.batches[b].buffers[id] = gen.batches[b].buffers[id]
                    /\ nodes'[FindIndex(nodes', id)].data.text = gen.batches[b].buffers[id]]_vars

\* two tokens of an id with a token of another id of the batch in the stream,
\* the first of the two already written to the node
C29_Witness ==
    \E b \in 1..Len(gen.batches) : \E id, other \in EventIds(b) :
        /\ id # other
        /\ TokensOf(b, id) = <<"x", "y">>
        /\ TokensOf(b, other) # <<>>
        /\ gen.batches[b].buffers[id] = gen.batches[b].prompts[id] \o "xy"
        /\ NodeOf(id).data.text = gen.batches[b].prompts[id] \o "x"

\* ---------------------------------------------------------------- C30
\* the flush callbacks of id of batch b that wait for the next animation frame
PendingFlushes(b, id) == {i \in 1..Len(gen.rafQueue) : gen.rafQueue[i] = <<b, id>>}

\* C30: at any time at most one flush callback is pending per request id; a
\* token arriving for an id with a pending flush is appended to the buffer and
\* schedules no callback; and an animation frame writes, for every id with a
\* pending flush, the buffer of that moment to the node.
C30_FlushesCoalesced ==
    /\ [](\A b \in 1..Len(gen.batches) : \A id \in EventIds(b) :
            Cardinality(PendingFlushes(b, id)) <= 1)
    /\ [][lastOp'.op = "onToken" =>
            \A b \in 1..Len(gen.batches) : \A id \in EventIds(b) : \A t \in Tokens :
                (PendingFlushes(b, id) # {} /\ onToken(b, id, t)) =>
                    /\ gen'.batches[b].buffers[id] = gen.batches[b].buffers[id] \o t
                    /\ gen'.rafQueue = gen.rafQueue]_vars
    /\ [][AnimationFrame =>
            \A b \in 1..Len(gen.batches) : \A id \in EventIds(b) :
                (PendingFlushes(b, id) # {} /\ id \in NodeIds(nodes)) =>
                    nodes'[FindIndex(nodes', id)].data.text = gen.batches[b].buffers[id]]_vars

\* ---------------------------------------------------------------- C31
\* the position in log of the first event that is not a token, 0 if none
FirstTerminal(log) ==
    IF \A i \in 1..Len(log) : log[i] \in Tokens THEN 0
    ELSE SetMin({i \in 1..Len(log) : log[i] \notin Tokens})

\* every token of log came before its first terminal event
NoLateToken(log) ==
    \A i \in 1..Len(log) : log[i] \in Tokens => (FirstTerminal(log) = 0 \/ i < FirstTerminal(log))

\* C31: once done(id) or error(id) has been processed, a flush callback that
\* was scheduled for that id before it writes nothing: for an id that is
\* terminal and has received no token since, an animation frame leaves the text
\* of its node as it is (as the user may have edited it in between).
C31_TerminalCancelsFlush ==
    [][AnimationFrame =>
          \A b \in 1..Len(gen.batches) : \A id \in EventIds(b) :
              ( /\ id \in gen.batches[b].completed
                /\ NoLateToken(gen.batches[b].received[id])
                /\ id \in NodeIds(nodes) ) =>
                  nodes'[FindIndex(nodes', id)].data.text = NodeOf(id).data.text]_vars

\* ---------------------------------------------------------------- C32
\* the node of id as the stored blob has it
StoredNode(id) == storage[1].nodes[FindIndex(storage[1].nodes, id)]

\* C32: every step in which a request id becomes terminal (by a done event,
\* an error event, a thrown transport failure or the end of the stream) makes a
\* persist request, restarting the debounce timer; and once no timer and no
\* flush is pending, the stored blob holds the node of every terminal id as it
\* is in the document, not generating.
C32_TerminalOutcomesPersisted ==
    /\ [][\A b \in 1..Len(gen.batches) : \A id \in EventIds(b) :
            (id \notin gen.batches[b].completed /\ id \in gen'.batches[b].completed) =>
                /\ persistTimer'
                /\ timeouts' = SetTimeout(timeouts)]_vars
    /\ [](\A b \in 1..Len(gen.batches) : \A id \in EventIds(b) :
            ( /\ id \in gen.batches[b].completed
              /\ NoLateToken(gen.batches[b].received[id])
              /\ id \in NodeIds(nodes)
              /\ ~persistTimer /\ timeouts = <<>> /\ gen.rafQueue = <<>> ) =>
                /\ storage # <<>>
                /\ id \in NodeIds(storage[1].nodes)
                /\ StoredNode(id) = StringifyNode(NodeOf(id))
                /\ ~StoredNode(id).data.isGenerating)

\* ---------------------------------------------------------------- C33
\* the request ids of batch b that are not terminal
LiveIds(g, b) == SeqRange(g.batches[b].requests) \ g.batches[b].completed

\* the request ids of all batches that are not terminal, each with its batch
AllLiveIds(g) == UNION {{<<b, id>> : id \in LiveIds(g, b)} : b \in 1..Len(g.batches)}

\* activeRequests is never negative and counts the request ids that are not
\* terminal; a step changes it by the placeholders it created less the ids it
\* made terminal
CounterCounts ==
    /\ [](gen.activeRequests >= 0 /\ gen.activeRequests = Cardinality(AllLiveIds(gen)))
    /\ [][gen'.activeRequests - gen.activeRequests
            = (IF lastOp'.op \in {"generateForNode", "generateAllLeaves"}
               THEN Len(nodes') - Len(nodes) ELSE 0)
              - Cardinality(AllLiveIds(gen) \ AllLiveIds(gen'))]_vars

SentFor(i) == IF i \in DOMAIN server.sent THEN server.sent[i] ELSE <<>>

\* log is token events only
TokenEventsOnly(log) == \A k \in 1..Len(log) : log[k] = "token"

\* C34: for every request of the batch the endpoint sends token events and
\* then, when the upstream call has ended in any of its ways, exactly one done
\* or error event, and nothing for that request after it; a request not yet
\* started has nothing sent; the line `data: [DONE]` is sent once, when every
\* request has had its done or error event, nothing is sent after it, and it
\* is sent in the end.  A client that cancels the response gets nothing more:
\* the requests that end after that have token events only.
C34_OneTerminalPerRequest ==
    /\ [](\A i \in 1..MaxRequests :
            LET log == SentFor(i)
            IN IF i \in Finished /\ server.results[i] # Rejected
               THEN /\ log # <<>>
                    /\ log[Len(log)] = server.results[i]
                    /\ log[Len(log)] \in Outcomes
                    /\ TokenEventsOnly(SubSeq(log, 1, Len(log) - 1))
               ELSE /\ TokenEventsOnly(log)
                    /\ log # <<>> => (i \in server.inFlight \/ server.cancelled))
    /\ [](/\ server.sentinels <= 1
          /\ server.sentinels = 1 <=> server.phase = "closed"
          /\ server.sentinels = 1 => (Finished = 1..server.total /\ server.rejected = {}))
    /\ [][server.phase = "closed" => server' = server]_vars
    /\ [][server.cancelled => (server'.sent = server.sent /\ server'.sentinels = server.sentinels)]_vars
    /\ [](~server.cancelled => \A i \in Finished : server.results[i] # Rejected)
    /\ [](server.phase # "idle" => <>(server.sentinels = 1 \/ server.cancelled))

\* the stream is closed after a request that streamed a token and was done, and
\* one that failed
C34_Witness ==
    /\ server.phase = "closed"
    /\ server.total = 2
    /\ SentFor(1) = <<"token", "done">>
    /\ SentFor(2) = <<"error">>
    /\ server.sentinels = 1

\* ---------------------------------------------------------------- C35
\* what a line of the body asks for: the callback of a well-formed data line,
\* nothing for any other line
EventOf(line) ==
    CASE line = <<"da", "ta: {id:a,type:token,text:x}">> -> <<Call("onToken", "a", "x")>>
      [] line = <<"data: {id:b,ty", "pe:done}">> -> <<Call("onDone", "b", Undefined)>>
      [] line = <<"data: ", "{id:a,type:error}">> -> <<Call("onError", "a", "Unknown error")>>
      [] line = <<"data: {id:a,type:error,", "text:}">> -> <<Call("onError", "a", "Unknown error")>>
      [] line = <<"data: {id:b,type:error,te", "xt:boom}">> -> <<Call("onError", "b", "boom")>>
      [] OTHER -> <<>>

IsSentinel(line) == line = <<"data: [D", "ONE]">>

\* the callbacks of the lines up to the first sentinel, in stream order
RECURSIVE ExpectedCalls(_)
ExpectedCalls(lines) ==
    IF lines = <<>> \/ IsSentinel(Head(lines)) THEN <<>>
    ELSE EventOf(Head(lines)) \o ExpectedCalls(Tail(lines))

\* the lines whose "\n" the reader has handed out so far
LinesRead ==
    SubSeq(transport.body, 1,
           (Len(Wire(transport.body, transport.open)) - Len(transport.wire)) \div 3)

\* C35: whatever the chunks are, the callbacks invoked so far are exactly those
\* of the well-formed data lines handed out so far that come before the first
\* sentinel, one callback per line with the line's id, in stream order; lines
\* that are malformed, of an unknown type, comments or empty add nothing and
\* stop nothing; no line after the sentinel adds a callback.
C35_DemuxDefensive ==
    transport.phase # "idle" => transport.calls = ExpectedCalls(LinesRead)

\* a returned read loop that skipped a malformed line and an unknown type,
\* dispatched the line after them and stopped short of the rest of the body
C35_Witness ==
    /\ transport.phase = "returned"
    /\ transport.body = << <<"data: {id:a,", "type:tok">>, <<"da", "ta: {id:a,type:token,text:x}">>,
                           <<"data: [D", "ONE]">> >>
    /\ transport.calls = <<Call("onToken", "a", "x")>>

\* ---------------------------------------------------------------- C36
\* the nodes from which a placeholder that is not terminal was created
SourcesOfLive(g) ==
    {g.batches[p[1]].parents[p[2]] : p \in AllLiveIds(g)}

\* C36: with overlapping generateForNode and generateAllLeaves calls on the
\* same source node, the source is marked generating as long as one placeholder
\* created from it by any of the calls is not terminal, and a step clears the
\* mark only when none is left.
C36_SourceFlagTruthful ==
    /\ [](\A x \in SourcesOfLive(gen) \cap NodeIds(nodes) : NodeOf(x).data.isGenerating = TRUE)
    /\ [][\A x \in NodeIds(nodes) \cap NodeIds(nodes') :
            (NodeOf(x).data.isGenerating = TRUE
             /\ nodes'[FindIndex(nodes', x)].data.isGenerating # TRUE
             /\ x \in SourcesOfLive(gen))
            => x \notin SourcesOfLive(gen')]_vars

\* ---------------------------------------------------------------- C37
\* the placeholders that are not terminal
LivePlaceholders(g) == {p[2] : p \in AllLiveIds(g)}

\* C37: a placeholder is marked generating from its creation until its own
\* terminal event has been processed, whatever other generation runs meanwhile;
\* and generateAllLeaves does not take a placeholder that is not terminal as one
\* of its leaves, so that its partial text is no prompt.
C37_PlaceholderFlagKept ==
    /\ [](\A id \in LivePlaceholders(gen) \cap NodeIds(nodes) :
             NodeOf(id).data.isGenerating = TRUE)
    /\ [][(lastOp'.op = "generateAllLeaves" /\ Len(gen'.batches) = Len(gen.batches) + 1)
            => SeqRange(gen'.batches[Len(gen'.batches)].sources) \cap LivePlaceholders(gen) = {}]_vars

\* ---------------------------------------------------------------- C38
\* the request ids of all batches
RequestIds(g) == UNION {SeqRange(g.batches[b].requests) : b \in 1..Len(g.batches)}

\* the ids whose flush is pending
QueuedIds == {gen.rafQueue[k][2] : k \in 1..Len(gen.rafQueue)}

\* what batch b received for id has a done or an error event in it
TerminalReceived(b, id) ==
    \E k \in 1..Len(gen.batches[b].received[id]) :
        gen.batches[b].received[id][k] \in {"done", "error"}

\* C38: when a placeholder, one of its ancestors or the whole document is
\* deleted while the batch streams, a token, done or error event for the id of
\* a deleted placeholder leaves nodes, edges and the data map as they are; a
\* frame changes no node but those whose flush is pending and adds none; a
\* deleted id never comes back; the invariants of the data model hold; an id
\* that received a terminal event, or whose transport ended, is terminal; and
\* activeRequests goes down by one for each id that becomes terminal, so that it
\* counts the ids that are not.
C38_DeleteWhileStreaming ==
    /\ [][(lastOp'.op \in {"onToken", "onDone", "onError"}
           /\ lastOp'.arg \in RequestIds(gen) \ NodeIds(nodes))
          => (nodes' = nodes /\ edges' = edges /\ nodeDataMap' = nodeDataMap)]_vars
    /\ [][(lastOp'.op = "animationFrame" /\ gen.rafQueue # <<>>)
          => /\ Len(nodes') = Len(nodes)
             /\ \A i \in 1..Len(nodes) :
                   /\ nodes'[i].id = nodes[i].id
                   /\ nodes[i].id \notin QueuedIds => nodes'[i] = nodes[i]
             /\ edges' = edges]_vars
    /\ [][\A id \in RequestIds(gen) \ NodeIds(nodes) : id \notin NodeIds(nodes')]_vars
    /\ [](initialized => DataModelInvariants(nodes, edges))
    /\ [](\A b \in 1..Len(gen.batches) : \A id \in SeqRange(gen.batches[b].requests) :
             (TerminalReceived(b, id) \/ ~gen.batches[b].streaming)
             => id \in gen.batches[b].completed)
    /\ CounterCounts

\* a placeholder that was deleted and then received a token and a done event,
\* with its flush run and its batch still streaming
C38_Witness ==
    \E b \in 1..Len(gen.batches) : \E id \in SeqRange(gen.batches[b].requests) :
        /\ id \notin NodeIds(nodes)
        /\ gen.batches[b].streaming
        /\ gen.batches[b].received[id] = <<"x", "done">>
        /\ gen.rafQueue = <<>>
        /\ lastOp.op = "animationFrame"
        /\ gen.activeRequests = Cardinality(SeqRange(gen.batches[b].requests)) - 1

\* ---------------------------------------------------------------- C39
\* C39: on every document the store can hold, those accepted by importGraph or
\* loaded by init included, the traversal of deleteNode comes to an end, and
\* deleteNode removes no root node.
C39_DeleteTerminates ==
    /\ [](~hung)
    /\ [][lastOp'.op = "deleteNode"
          => \A i \in Root(nodes) : nodes[i].id \in NodeIds(nodes')]_vars

\* ---------------------------------------------------------------- C40
\* the text, error and isGenerating of every node
Shown(ns) == [i \in 1..Len(ns) |-> <<ns[i].id, ns[i].data.text, ns[i].data.error,
                                     ns[i].data.isGenerating>>]

\* C40: a token, done or error event whose id is not a request id of the batch
\* that runs changes no node's text, error or isGenerating, and leaves
\* activeRequests as it is.
C40_UnknownIdsInert ==
    [][(gen'.events = gen.events + 1
        /\ lastOp'.op \in {"onToken", "onDone", "onError"}
        /\ lastOp'.arg \notin RequestIds(gen))
       => (Shown(nodes') = Shown(nodes) /\ gen'.activeRequests = gen.activeRequests)]_vars

====
